---- MODULE Spec2Model ----
(***************************************************************************)
(* Verification model of the verifacts-backend claim-verification          *)
(* pipeline (app/services/orchestrator.py) and of the agents its nodes     *)
(* call.  The LangGraph workflow is modelled as the state machine it       *)
(* compiles to: one action per node, one for the conditional edge after    *)
(* the credibility node, and one for run_orchestrator's mapping of the     *)
(* final state to a FinalReport.  The POST /analyze handler              *)
(* (app/api/v1/endpoints.py) that calls run_orchestrator is modelled by   *)
(* three more actions, used by the specification SpecApi.                  *)
(*                                                                         *)
(* Python dicts are TLA+ functions over string keys (records); a missing   *)
(* key is a key outside DOMAIN.  None is the string NoneVal where a string *)
(* is expected and the record NoneDict where a dict is expected.           *)
(***************************************************************************)
EXTENDS Integers, Sequences, FiniteSets, TLC

VARIABLES
    pc,         \* node the engine runs next; "__end__", "returned", "raised";
                \* "analyze_content", "responded" for the endpoint
    state,      \* the WorkflowState channels held by the engine
    nodeState,  \* the dict object the last node worked on, as it left it
    config,     \* environment configuration (app/core/config.py)
    executed,   \* names of the nodes invoked so far, in order
    calls,      \* what each collaborator call of the run did
    report,     \* the FinalReport returned by run_orchestrator, or NoneDict
    request,    \* the body of the POST /analyze request, or NoneDict
    response,   \* the HTTP response of POST /analyze, or NoneDict
    settings,   \* agent3 Settings (agent3/config.py)
    checker_cache, \* AsyncFactChecker.cache: cache key -> stored result
    batch_claims, \* the claims argument of the verify_multiple call in flight
    tasks,      \* one verify coroutine per claim: position and outcome
    completed,  \* indices of the verify coroutines in the order they finished
    results,    \* [value |-> the list verify_multiple returned], or NoneDict
    cache_clears, \* number of DELETE /cache requests served so far
    runs,       \* concurrent run_orchestrator invocations: position and channels
    memory,     \* the MemorySaver of the compiled graph: thread_id -> checkpoints
    redis_client, \* app/core/cache.py redis_client: "Redis" or NoneVal
    redis_store,  \* the keys held by the Redis server
    cache_op,   \* the last cache_get / cache_set / cache_delete call, or NoneDict
    agent2_cache, \* agent_2.py cache: cache key -> stored ExtractResponse
    extracts,   \* the POST /extract requests served so far: position and response
    scan        \* the check_source_credibility call: position, polls and return

pipelineVars == <<pc, state, nodeState, config, executed, calls, report, request, response>>
checkerVars == <<settings, checker_cache, batch_claims, tasks, completed, results, cache_clears>>
engineVars == <<runs, memory>>
cacheVars == <<redis_client, redis_store, cache_op>>
extractorVars == <<agent2_cache, extracts>>
scanVars == <<scan>>
serviceVars == <<checkerVars, engineVars, cacheVars, extractorVars, scanVars>>
vars == <<pipelineVars, serviceVars>>

----------------------------------------------------------------------------
(* Bounds and input sets *)

MaxClaims == 2
\* Calls of fact_checker.verify and DELETE /cache requests in one history
MaxVerifies == 3
MaxClears == 1

NoneVal == "<None>"
NoneDict == [isNone |-> TRUE]
EmptyDict == [k \in {} |-> NoneVal]
END == "__end__"

InputUrl == "https://example.com/a"
RunInputs ==
    { [url |-> InputUrl, selection |-> NoneVal],
      [url |-> InputUrl, selection |-> "sel"],
      [url |-> "",       selection |-> "sel"] }

\* trust_level is whatever string the LLM wrote, or missing (None)
TrustLevels == {"high", "medium", "low", "very_low", "unknown", NoneVal}
LowLevels == {"low", "very_low"}

\* Python truthiness of an optional string
Truthy(s) == s # NoneVal /\ s # ""

\* dict.get(k, default)
Get(d, k, default) == IF k \in DOMAIN d THEN d[k] ELSE default

----------------------------------------------------------------------------
(* Workflow engine: channels and writes *)

SchemaKeys ==
    {"url", "selection", "credibility", "claims", "fact_checks",
     "search_insights", "error"}

initial_state(url, selection) ==
    [url |-> url, selection |-> selection, credibility |-> EmptyDict,
     claims |-> <<>>, fact_checks |-> <<>>, search_insights |-> <<>>,
     error |-> NoneVal]

\* A node's return value updates the channels of the schema: a returned dict
\* writes the schema keys it carries, a returned None writes nothing.
ApplyWrites(channels, ret) ==
    IF ret = NoneDict THEN channels
    ELSE [k \in DOMAIN channels |-> IF k \in DOMAIN ret THEN ret[k] ELSE channels[k]]

----------------------------------------------------------------------------
(* Source credibility agent *)

\* Outcomes of one SourceCredibilityAgent.run call: the urlscan tool raises
\* (outside the agent's try), the LLM chain fails, or the LLM returns a verdict.
CredOutcomes ==
    { [tool |-> "raise"], [tool |-> "ok", llm |-> "fail"] }
    \cup { [tool |-> "ok", llm |-> "ok", trust_level |-> t] : t \in TrustLevels }

SourceCredibilityAgent_run(url, out) ==
    IF out.llm = "ok"
    THEN [url |-> url, trust_level |-> out.trust_level, score |-> 50,
          red_flags |-> <<>>, summary |-> "assessed", source_used |-> <<url>>]
    ELSE [url |-> url, trust_level |-> "unknown", score |-> 0,
          red_flags |-> <<"error_generating_verdict">>,
          summary |-> "Could not generate credibility verdict due to an error.",
          source_used |-> <<url>>]

\* credibility_node whose except branch stores an unknown report, no error
credibility_body_faultunknown(st, out) ==
    IF ~Truthy(st.url)
    THEN [st EXCEPT !.error = "No URL provided for credibility check"]
    ELSE IF out.tool = "raise"
    THEN [st EXCEPT !.credibility =
                       SourceCredibilityAgent_run(st.url, [tool |-> "ok", llm |-> "fail"])]
    ELSE LET rep == SourceCredibilityAgent_run(st.url, out)
             trust_level == Get(rep, "trust_level", "unknown")
         IN [st EXCEPT !.credibility = rep,
                       !.error = IF trust_level \in LowLevels
                                 THEN "Source credibility too low to proceed"
                                 ELSE @]

\* credibility_node that stores a low-trust report without setting error
credibility_body_lownoerror(st, out) ==
    IF ~Truthy(st.url)
    THEN [st EXCEPT !.error = "No URL provided for credibility check"]
    ELSE IF out.tool = "raise"
    THEN [st EXCEPT !.error = "Credibility check failed: urlscan"]
    ELSE [st EXCEPT !.credibility = SourceCredibilityAgent_run(st.url, out)]

\* credibility_node failing closed: unknown is treated as low
credibility_body_failclosed(st, out) ==
    IF ~Truthy(st.url)
    THEN [st EXCEPT !.error = "No URL provided for credibility check"]
    ELSE IF out.tool = "raise"
    THEN [st EXCEPT !.error = "Credibility check failed: urlscan"]
    ELSE LET rep == SourceCredibilityAgent_run(st.url, out)
             trust_level == Get(rep, "trust_level", "unknown")
         IN [st EXCEPT !.credibility = rep,
                       !.error = IF trust_level \in LowLevels \cup {"unknown"}
                                 THEN "Source credibility too low to proceed"
                                 ELSE @]

\* credibility_node's body applied to the dict st
credibility_body(st, out) ==
    IF ~Truthy(st.url)
    THEN [st EXCEPT !.error = "No URL provided for credibility check"]
    ELSE IF out.tool = "raise"
    THEN [st EXCEPT !.error = "Credibility check failed: urlscan"]
    ELSE LET rep == SourceCredibilityAgent_run(st.url, out)
             trust_level == Get(rep, "trust_level", "unknown")
         IN [st EXCEPT !.credibility = rep,
                       !.error = IF trust_level \in LowLevels
                                 THEN "Source credibility too low to proceed"
                                 ELSE @]

credibility_node(Outs) ==
    /\ pc = "credibility_node"
    /\ \E out \in Outs :
         LET st == credibility_body(state, out)
         IN /\ state' = ApplyWrites(state, st)
            /\ nodeState' = st
            /\ calls' = [calls EXCEPT !.credibility =
                                     IF Truthy(state.url) THEN out ELSE NoneDict]
    /\ executed' = Append(executed, "credibility_node")
    /\ pc' = "decide_next_step"
    /\ UNCHANGED <<config, report, request, response>>
    /\ UNCHANGED serviceVars

\* A gate whose continue branch is mapped to the enrichment node
decide_next_step_skip(st) ==
    LET cred == Get(Get(Get(st, "credibility", EmptyDict), "verdict", EmptyDict),
                    "trust_level", "unknown")
    IN IF cred \in LowLevels THEN END ELSE "search_enrichment_node"

\* A gate that sends a run with an unknown trust level back to the
\* credibility node
decide_next_step_retry(st) ==
    IF Get(Get(st, "credibility", EmptyDict), "trust_level", "unknown") = "unknown"
    THEN "credibility_node"
    ELSE "extraction_node"

\* The gate of the conditional edge
decide_next_step(st) ==
    LET cred == Get(Get(Get(st, "credibility", EmptyDict), "verdict", EmptyDict),
                    "trust_level", "unknown")
    IN IF cred \in LowLevels THEN END ELSE "extraction_node"

conditional_edge ==
    /\ pc = "decide_next_step"
    /\ pc' = decide_next_step(state)
    /\ UNCHANGED <<state, nodeState, config, executed, calls, report, request, response>>
    /\ UNCHANGED serviceVars

----------------------------------------------------------------------------
(* Claim extraction *)

Texts == {"Claim A ", "claim b"}
ClaimTypes == {"factual", "opinion", "mixed", "ambiguous"}
Claims == [text : Texts, claim_type : ClaimTypes]

RECURSIVE SeqsUpTo(_, _)
SeqsUpTo(S, n) ==
    IF n = 0 THEN {<<>>}
    ELSE LET shorter == SeqsUpTo(S, n - 1)
         IN shorter \cup {Append(q, x) : q \in {r \in shorter : Len(r) = n - 1}, x \in S}

\* Outcomes of one ClaimExtractionAgent.run call: it raises, or returns Claims
ExtractOutcomes ==
    { [raised |-> TRUE] }
    \cup { [raised |-> FALSE, claims |-> cs] : cs \in SeqsUpTo(Claims, MaxClaims) }

\* The outcomes that give every list of state.claims: the agent raises, it
\* returns factual claims only, or it returns one opinion
ExtractFew ==
    { [raised |-> TRUE],
      [raised |-> FALSE, claims |-> <<[text |-> "claim b", claim_type |-> "opinion"]>>] }
    \cup { [raised |-> FALSE, claims |-> cs] :
             cs \in SeqsUpTo({c \in Claims : c.claim_type = "factual"}, MaxClaims) }

\* The comprehension without its filter: [c.text for c in claims]
FactualTexts_all(cs) == [i \in 1..Len(cs) |-> cs[i].text]

\* [c.text for c in claims if c.claim_type == "factual"]
RECURSIVE FactualTexts(_)
FactualTexts(cs) ==
    IF cs = <<>> THEN <<>>
    ELSE IF Head(cs).claim_type = "factual"
         THEN <<Head(cs).text>> \o FactualTexts(Tail(cs))
         ELSE FactualTexts(Tail(cs))

\* extraction_node without its short-circuit on state.error
extraction_body_noguard(st, out) ==
    IF out.raised
    THEN [st EXCEPT !.error = "Claim extraction failed: agent error"]
    ELSE [st EXCEPT !.claims = FactualTexts(out.claims)]

extraction_body(st, out) ==
    IF Truthy(Get(st, "error", NoneVal)) THEN st
    ELSE IF out.raised
    THEN [st EXCEPT !.error = "Claim extraction failed: agent error"]
    ELSE [st EXCEPT !.claims = FactualTexts(out.claims)]

\* Python values handed to a collaborator, tagged with their type
PyStr(s) == [type |-> "str", value |-> s]
PyDict(d) == [type |-> "dict", value |-> d]

\* The arguments of agent.run(verdict): the dict built from the state is the
\* only positional argument, so it binds to url, and selection keeps its
\* default None
extraction_args(st) ==
    [url |-> PyDict([url |-> Get(st, "url", NoneVal),
                     selection |-> Get(st, "selection", NoneVal),
                     trust_level |-> Get(Get(st, "credibility", EmptyDict),
                                         "trust_level", NoneVal),
                     score |-> Get(Get(st, "credibility", EmptyDict), "score", NoneVal)]),
     selection |-> PyStr(NoneVal)]

extraction_node(Outs) ==
    /\ pc = "extraction_node"
    /\ \E out \in Outs :
         LET st == extraction_body(state, out)
         IN /\ state' = ApplyWrites(state, st)
            /\ nodeState' = st
            /\ calls' = [calls EXCEPT !.extraction =
                            IF Truthy(Get(state, "error", NoneVal)) THEN NoneDict
                            ELSE [args |-> extraction_args(state), out |-> out]]
    /\ executed' = Append(executed, "extraction_node")
    /\ pc' = "search_enrichment_node"
    /\ UNCHANGED <<config, report, request, response>>
    /\ UNCHANGED serviceVars

----------------------------------------------------------------------------
(* Search enrichment *)

U1 == "https://src.example/1"
U1ws == " https://src.example/1 "
U2 == "https://src.example/2"

\* The URL taken as it is, without strip()
Strip_identity(u) == u

\* str.strip() on the URLs of the model
Strip(u) == IF u = U1ws THEN U1 ELSE u

KeySourceLists == { <<>>, <<[title |-> "t", url |-> U1ws], [title |-> "t", url |-> U2]>> }

\* What the Tavily client and the LLM do for one claim
SearchOutcomes ==
    { [search |-> "error"], [search |-> "ok", llm |-> "fail"] }
    \cup { [search |-> "ok", llm |-> "ok", key_sources |-> ks] : ks \in KeySourceLists }

\* TavilySearchTool._search followed by _parse
TavilySearchTool_search(query, hasKey, out) ==
    IF ~hasKey THEN [status |-> "error", reason |-> "Tavily API key missing"]
    ELSE IF out.search = "error" THEN [status |-> "error", reason |-> "client error"]
    ELSE [status |-> "success", query |-> query, summary |-> "No summary available.",
          top_sources |-> <<>>, total_results |-> 0]

\* TavilySearchAgent.run: [raised |-> TRUE, msg] or [raised |-> FALSE, value]
TavilySearchAgent_run(claim, hasKey, out) ==
    LET raw_result == TavilySearchTool_search(claim, hasKey, out)
    IN IF raw_result.status # "success"
       THEN [raised |-> FALSE,
             value |-> [claim |-> claim, status |-> "failed",
                        error |-> Get(raw_result, "reason", "Search failed"),
                        insights |-> NoneDict]]
       ELSE IF out.llm = "ok"
       THEN [raised |-> FALSE,
             value |-> [claim |-> claim, status |-> "success",
                        insights |-> [llm_summary |-> "s", confidence |-> 1,
                                      verdict |-> "unverified",
                                      key_sources |-> out.key_sources,
                                      notes |-> ""]]]
       ELSE IF "overall_sentiment" \in DOMAIN raw_result
       THEN [raised |-> FALSE,
             value |-> [claim |-> claim, status |-> "partial",
                        insights |-> [llm_summary |-> raw_result.summary,
                                      confidence |-> 0,
                                      sentiment |-> raw_result.overall_sentiment,
                                      key_sources |-> SubSeq(raw_result.top_sources, 1, 3),
                                      notes |-> "LLM reasoning failed"]]]
       ELSE [raised |-> TRUE, msg |-> "'overall_sentiment'"]

\* The loop with the try around the whole loop: the first raise ends it
RECURSIVE EnrichLoop_abort(_, _, _)
EnrichLoop_abort(claims, outs, hasKey) ==
    IF claims = <<>> THEN <<>>
    ELSE LET r == TavilySearchAgent_run(Head(claims), hasKey, Head(outs))
         IN IF r.raised THEN <<>>
            ELSE <<r.value>> \o EnrichLoop_abort(Tail(claims), Tail(outs), hasKey)

\* The per-claim loop of search_enrichment_node
RECURSIVE EnrichLoop(_, _, _)
EnrichLoop(claims, outs, hasKey) ==
    IF claims = <<>> THEN <<>>
    ELSE LET claim == Head(claims)
             r == TavilySearchAgent_run(claim, hasKey, Head(outs))
             entry == IF r.raised
                      THEN [claim |-> claim, status |-> "failed",
                            error |-> r.msg, insights |-> NoneDict]
                      ELSE r.value
         IN <<entry>> \o EnrichLoop(Tail(claims), Tail(outs), hasKey)

search_enrichment_body(st, cfg, outs) ==
    IF Truthy(Get(st, "error", NoneVal)) \/ Get(st, "claims", <<>>) = <<>>
    THEN [st EXCEPT !.search_insights = <<>>]
    ELSE IF ~cfg.TAVILY_API_KEY
    THEN [st EXCEPT !.search_insights = <<>>]
    ELSE [st EXCEPT !.search_insights = EnrichLoop(st.claims, outs, cfg.TAVILY_API_KEY)]

\* TRUE iff the node reaches its per-claim loop
SearchRuns(st, cfg) ==
    /\ ~Truthy(Get(st, "error", NoneVal))
    /\ Get(st, "claims", <<>>) # <<>>
    /\ cfg.TAVILY_API_KEY

search_enrichment_node(Outs) ==
    /\ pc = "search_enrichment_node"
    /\ \E outs \in [1..Len(state.claims) -> Outs] :
         LET st == search_enrichment_body(state, config, outs)
         IN /\ state' = ApplyWrites(state, st)
            /\ nodeState' = st
            /\ calls' = [calls EXCEPT !.search =
                            IF SearchRuns(state, config) THEN outs ELSE <<>>]
    /\ executed' = Append(executed, "search_enrichment_node")
    /\ pc' = "factcheck_node"
    /\ UNCHANGED <<config, report, request, response>>
    /\ UNCHANGED serviceVars

----------------------------------------------------------------------------
(* Fact checking *)

\* GoogleFactCheckTool._hash normalises the claim: claim.lower().strip()
Normalize(claim) == IF claim = "Claim A " THEN "claim a" ELSE claim

\* The keys of status_map in iteration order, and their statuses
StatusKeys == <<"false", "pants", "incorrect", "true", "accurate", "mixture", "half", "mostly">>
StatusOf(k) ==
    IF k \in {"false", "pants", "incorrect"} THEN "debunked"
    ELSE IF k \in {"true", "accurate"} THEN "verified"
    ELSE "mixture"

\* A textual rating of the model and the status_map keys its lower case contains
RatingText == "Mostly True"
KeysIn(rating) == IF rating = RatingText THEN {"mostly", "true"} ELSE {}

\* Responses of the Google Fact Check API to one query
ApiResponses ==
    { [kind |-> "error"],
      [kind |-> "ok", claims |-> <<>>],
      [kind |-> "ok", claims |-> <<[textualRating |-> RatingText, url |-> U2]>>] }

GoogleFactCheckTool_parse(claims, original) ==
    IF claims = <<>>
    THEN [status |-> "unverified", claim |-> original, reason |-> "No fact-checks found"]
    ELSE LET review == claims[1]
             hits == {i \in 1..Len(StatusKeys) : StatusKeys[i] \in KeysIn(Get(review, "textualRating", ""))}
             status == IF hits = {} THEN "unverified"
                       ELSE StatusOf(StatusKeys[CHOOSE i \in hits : \A j \in hits : i <= j])
         IN [status |-> status, claim |-> original,
             textual_rating |-> Get(review, "textualRating", NoneVal),
             source_url |-> Get(review, "url", NoneVal)]

\* GoogleFactCheckTool._search: the result and the tool's cache afterwards
GoogleFactCheckTool_search(claim, cache, hasKey, api) ==
    IF Normalize(claim) \in DOMAIN cache
    THEN [result |-> cache[Normalize(claim)], cache |-> cache]
    ELSE IF ~hasKey
    THEN [result |-> [status |-> "error", reason |-> "API key missing"], cache |-> cache]
    ELSE IF api.kind = "error"
    THEN [result |-> [status |-> "unverified", reason |-> "API error"], cache |-> cache]
    ELSE LET result == GoogleFactCheckTool_parse(api.claims, claim)
         IN [result |-> result,
             cache |-> [k \in DOMAIN cache \cup {Normalize(claim)} |->
                          IF k = Normalize(claim) THEN result ELSE cache[k]]]

\* A verdict the LLM chain returned that is JSON but not an object
NonDict == [nondict |-> TRUE]
IsDict(v) == v # NonDict /\ v # NoneDict

\* What the LLM chain of FactCheckAgent does for one claim
FactLLMOutputs ==
    { [llm |-> "fail"],
      [llm |-> "ok", verdict |-> NonDict],
      [llm |-> "ok", verdict |-> [verdict |-> "verified", corroboration_url |-> U1]],
      [llm |-> "ok", verdict |-> [verdict |-> "debunked", source_url |-> NoneVal,
                                  corroboration_url |-> NoneVal]],
      [llm |-> "ok", verdict |-> [verdict |-> "mixture", source_url |-> U2,
                                  corroboration_url |-> U1ws]] }

FactOutcomes == [api : ApiResponses, chain : FactLLMOutputs]

\* FactCheckAgent.run whose except branch hands back the tool's status
FactCheckAgent_run_toolstatus(claim, raw_result, chain) ==
    IF chain.llm = "ok"
    THEN [agent |-> "fact_checker", claim |-> claim, verdict |-> chain.verdict,
          raw_tool_result |-> raw_result]
    ELSE [agent |-> "fact_checker", claim |-> claim,
          verdict |-> [verdict |-> "error", confidence |-> 1,
                       explanation |-> "Fact-check processing failed",
                       sources |-> <<>>],
          error |-> "chain error"]

\* FactCheckAgent.run on a tool result
FactCheckAgent_run(claim, raw_result, chain) ==
    IF chain.llm = "ok"
    THEN [agent |-> "fact_checker", claim |-> claim, verdict |-> chain.verdict,
          raw_tool_result |-> raw_result]
    ELSE [agent |-> "fact_checker", claim |-> claim,
          verdict |-> [verdict |-> "unverified", confidence |-> 1,
                       explanation |-> "Fact-check processing failed",
                       sources |-> <<>>],
          error |-> "chain error"]

\* The loop that appends nothing for a claim whose chain failed
RECURSIVE FactCheckLoop_skipfailed(_, _, _, _)
FactCheckLoop_skipfailed(claims, outs, cache, hasKey) ==
    IF claims = <<>> THEN <<>>
    ELSE LET claim == Head(claims)
             s == GoogleFactCheckTool_search(claim, cache, hasKey, Head(outs).api)
             result == FactCheckAgent_run(claim, s.result, Head(outs).chain)
         IN (IF Head(outs).chain.llm = "fail" THEN <<>> ELSE <<result>>)
            \o FactCheckLoop_skipfailed(Tail(claims), Tail(outs), s.cache, hasKey)

\* The per-claim loop of factcheck_node, on one agent (one tool cache)
RECURSIVE FactCheckLoop(_, _, _, _)
FactCheckLoop(claims, outs, cache, hasKey) ==
    IF claims = <<>> THEN <<>>
    ELSE LET claim == Head(claims)
             s == GoogleFactCheckTool_search(claim, cache, hasKey, Head(outs).api)
             result == FactCheckAgent_run(claim, s.result, Head(outs).chain)
         IN <<result>> \o FactCheckLoop(Tail(claims), Tail(outs), s.cache, hasKey)

\* TRUE iff the node goes past its early return
FactCheckRuns(st) ==
    /\ ~Truthy(Get(st, "error", NoneVal))
    /\ Get(st, "claims", <<>>) # <<>>

\* FactCheckAgent() builds GoogleFactCheckTool(api_key), which evaluates
\* api_key or config.GOOGLE_FACT_CHECK_KEY: Config has no such attribute, so
\* the constructor raises AttributeError when the configured key is empty.
FactCheckAgent_init_raises(cfg) == ~cfg.GOOGLE_FACT_CHECK_API_KEY

factcheck_body(st, cfg, outs) ==
    IF ~FactCheckRuns(st) THEN st
    ELSE [st EXCEPT !.fact_checks =
             FactCheckLoop(st.claims, outs, EmptyDict, cfg.GOOGLE_FACT_CHECK_API_KEY)]

factcheck_node(Outs) ==
    /\ pc = "factcheck_node"
    /\ executed' = Append(executed, "factcheck_node")
    /\ IF FactCheckRuns(state) /\ FactCheckAgent_init_raises(config)
       THEN /\ pc' = "raised"
            /\ nodeState' = state
            /\ UNCHANGED <<state, calls>>
       ELSE \E outs \in [1..Len(state.claims) -> Outs] :
              LET st == factcheck_body(state, config, outs)
              IN /\ state' = ApplyWrites(state, st)
                 /\ nodeState' = st
                 /\ calls' = [calls EXCEPT !.factcheck =
                                 IF FactCheckRuns(state) THEN outs ELSE <<>>]
                 /\ pc' = "compile_report_node"
    /\ UNCHANGED <<config, report, request, response>>
    /\ UNCHANGED serviceVars

----------------------------------------------------------------------------
(* Report compilation *)

\* The summary strings of the model: a literal text, or the fallback template
\* "Processed {total} claims. {verified} verified, {debunked} debunked. ..."
Text(t) == [text |-> t]
FallbackSummary(total, verified, debunked) ==
    [template |-> "Processed", total |-> total, verified |-> verified,
     debunked |-> debunked]

\* What the narrative LLM chain returns: a failure, a JSON value that is not
\* an object, or an object that may lack either key
CompileOutcomes ==
    { [llm |-> "fail"],
      [llm |-> "ok", compiled |-> NonDict],
      [llm |-> "ok", compiled |-> EmptyDict],
      [llm |-> "ok", compiled |-> [overall_verdict |-> "verified"]],
      [llm |-> "ok", compiled |-> [overall_verdict |-> "debunked",
                                   summary |-> Text("narrative")]] }

\* sum(1 for fc in fact_checks if fc.get("verdict", {}).get("verdict") == v)
RECURSIVE CountVerdict(_, _)
CountVerdict(fact_checks, v) ==
    IF fact_checks = <<>> THEN 0
    ELSE (IF Get(Get(Head(fact_checks), "verdict", EmptyDict), "verdict", NoneVal) = v
          THEN 1 ELSE 0) + CountVerdict(Tail(fact_checks), v)

\* The chain with the majority tests ahead of the unanimity tests
FallbackVerdict_majorityfirst(total_claims, verified, debunked) ==
    IF total_claims = 0 THEN "no_claims"
    ELSE IF verified > debunked THEN "mostly_verified"
    ELSE IF debunked > verified THEN "mostly_debunked"
    ELSE IF verified = total_claims THEN "verified"
    ELSE IF debunked = total_claims THEN "debunked"
    ELSE "mixture"

\* The if/elif chain of the fallback
FallbackVerdict(total_claims, verified, debunked) ==
    IF total_claims = 0 THEN "no_claims"
    ELSE IF verified = total_claims THEN "verified"
    ELSE IF debunked = total_claims THEN "debunked"
    ELSE IF verified > debunked THEN "mostly_verified"
    ELSE IF debunked > verified THEN "mostly_debunked"
    ELSE "mixture"

\* .get on a verdict that is not a dict raises AttributeError
SomeVerdictNotDict(fact_checks) ==
    \E i \in 1..Len(fact_checks) : ~IsDict(Get(fact_checks[i], "verdict", EmptyDict))

\* The except branch entered also for a dict that lacks either key
TakesFallback_strict(out) ==
    \/ out.llm = "fail"
    \/ ~IsDict(out.compiled)
    \/ {"overall_verdict", "summary"} \ DOMAIN out.compiled # {}

\* TRUE iff the chain call ends in the except branch: the chain failed, or
\* compiled.get raised on a value that is not a dict
TakesFallback(out) == out.llm = "fail" \/ ~IsDict(out.compiled)

\* Lines 146-184: the dict after the verdict and summary are assigned
compile_verdict(st, out) ==
    IF ~TakesFallback(out)
    THEN [k \in DOMAIN st \cup {"overall_verdict", "summary"} |->
            IF k = "overall_verdict" THEN Get(out.compiled, "overall_verdict", "unverified")
            ELSE IF k = "summary" THEN Get(out.compiled, "summary", Text("No summary generated"))
            ELSE st[k]]
    ELSE LET total_claims == Len(Get(st, "claims", <<>>))
             verified == CountVerdict(Get(st, "fact_checks", <<>>), "verified")
             debunked == CountVerdict(Get(st, "fact_checks", <<>>), "debunked")
         IN [k \in DOMAIN st \cup {"overall_verdict", "summary"} |->
               IF k = "overall_verdict" THEN FallbackVerdict(total_claims, verified, debunked)
               ELSE IF k = "summary" THEN FallbackSummary(total_claims, verified, debunked)
               ELSE st[k]]

\* a or b on optional strings
Or(a, b) == IF Truthy(a) THEN a ELSE b

\* Lines 190-194: URLs taken from the fact checks
FactCheckSources(fact_checks) ==
    { Strip(Or(Get(fact_checks[i].verdict, "source_url", NoneVal),
               Get(fact_checks[i].verdict, "corroboration_url", NoneVal))) :
        i \in { j \in 1..Len(fact_checks) :
                  Truthy(Or(Get(fact_checks[j].verdict, "source_url", NoneVal),
                            Get(fact_checks[j].verdict, "corroboration_url", NoneVal))) } }

\* URLs of a list of {title, url} dicts
UrlsOf(srcs) ==
    { Strip(srcs[i].url) : i \in { j \in 1..Len(srcs) : Truthy(Get(srcs[j], "url", NoneVal)) } }

\* Lines 197-217: URLs taken from the successful search insights
InsightSources(search_insights) ==
    UNION { LET insights_data == Get(search_insights[i], "insights", EmptyDict)
                key_sources == Get(insights_data, "key_sources", <<>>)
                raw == Get(insights_data, "raw_search", EmptyDict)
            IN UrlsOf(key_sources)
               \cup (IF key_sources = <<>> THEN UrlsOf(Get(raw, "top_sources", <<>>)) ELSE {}) :
            i \in { j \in 1..Len(search_insights) :
                      /\ Get(search_insights[j], "status", NoneVal) = "success"
                      /\ Get(search_insights[j], "insights", EmptyDict) # EmptyDict
                      /\ Get(search_insights[j], "insights", EmptyDict) # NoneDict } }

sources_set(st) ==
    FactCheckSources(Get(st, "fact_checks", <<>>))
    \cup InsightSources(Get(st, "search_insights", <<>>))

\* A list built from the URLs without the set: a URL may come twice
ListsOf_repeats(S) ==
    { q \in SeqsUpTo(S, Cardinality(S) + 1) : {q[i] : i \in 1..Len(q)} = S }

\* list(sources_set): the elements once each, in an order the set decides
ListsOf(S) == { q \in SeqsUpTo(S, Cardinality(S)) :
                  Len(q) = Cardinality(S) /\ {q[i] : i \in 1..Len(q)} = S }

\* compile_report_node raises where a fact-check verdict is not a dict: in the
\* fallback's counts, or else in the source loop
compile_raises(st) == SomeVerdictNotDict(Get(st, "fact_checks", <<>>))

compile_report_node(Outs) ==
    /\ pc = "compile_report_node"
    /\ executed' = Append(executed, "compile_report_node")
    /\ \E out \in Outs :
         /\ calls' = [calls EXCEPT !.compile = out]
         /\ IF compile_raises(state)
            THEN /\ pc' = "raised"
                 /\ nodeState' = IF TakesFallback(out) THEN state
                                 ELSE compile_verdict(state, out)
            ELSE /\ pc' = END
                 /\ \E srcs \in ListsOf(sources_set(state)) :
                      LET st == compile_verdict(state, out)
                      IN nodeState' = [k \in DOMAIN st \cup {"sources"} |->
                                         IF k = "sources" THEN srcs ELSE st[k]]
    \* the node returns None: the engine writes nothing
    /\ state' = ApplyWrites(state, NoneDict)
    /\ UNCHANGED <<config, report, request, response>>
    /\ UNCHANGED serviceVars

----------------------------------------------------------------------------
(* Run coordinator *)

FinalReport(final_state) ==
    [url |-> Get(final_state, "url", ""),
     credibility |-> Get(final_state, "credibility", EmptyDict),
     claims |-> Get(final_state, "claims", <<>>),
     fact_checks |-> Get(final_state, "fact_checks", <<>>),
     search_insights |-> Get(final_state, "search_insights", <<>>),
     overall_verdict |-> Get(final_state, "overall_verdict", "unverified"),
     summary |-> Get(final_state, "summary", Text("No summary available")),
     sources |-> Get(final_state, "sources", <<>>)]

\* graph.ainvoke has returned the channel values; run_orchestrator maps them
run_orchestrator_return ==
    /\ pc = END
    /\ report' = FinalReport(state)
    /\ pc' = "returned"
    /\ UNCHANGED <<state, nodeState, config, executed, calls, request, response>>
    /\ UNCHANGED serviceVars

----------------------------------------------------------------------------
(* POST /analyze *)

\* Request bodies: url a well-formed URL, an ill-formed one, or missing;
\* selection a text or missing
Requests == [url : {InputUrl, "not_a_valid_url", NoneVal}, selection : {"sel", NoneVal}]

\* A validator that accepts any non-empty string
IsHttpUrl_lax(u) == Truthy(u)
\* AnalysisRequest.url is a required HttpUrl: validation of the model's urls
IsHttpUrl(u) == u = InputUrl

\* Lines 44-48: the insights of the last successful search insight of a claim
search_map_get(search_insights, claim_text) ==
    LET hits == { i \in 1..Len(search_insights) :
                    /\ search_insights[i].status = "success"
                    /\ search_insights[i].claim = claim_text }
    IN IF hits = {} THEN EmptyDict
       ELSE search_insights[CHOOSE i \in hits : \A j \in hits : j <= i].insights

\* Lines 51-54: the last fact-check verdict that names the claim
fact_check_map_get(fact_checks, claim_text) ==
    LET hits == { i \in 1..Len(fact_checks) :
                    LET v == Get(fact_checks[i], "verdict", EmptyDict)
                    IN IsDict(v) /\ "claim" \in DOMAIN v /\ v["claim"] = claim_text }
    IN IF hits = {} THEN EmptyDict
       ELSE fact_checks[CHOOSE i \in hits : \A j \in hits : j <= i].verdict

\* Lines 56-74: the verdict reported for one claim
claim_verdict(result, claim_text) ==
    LET insight_data == search_map_get(result.search_insights, claim_text)
    IN IF insight_data # EmptyDict
       THEN Get(insight_data, "verdict", "unverified")
       ELSE Get(fact_check_map_get(result.fact_checks, claim_text), "verdict", "unverified")

\* Lines 33-125: the response built from the FinalReport
AnalysisResponse(result) ==
    LET claims_raw == result.claims
        claim_verdicts == [i \in 1..Len(claims_raw) |->
                             [claim |-> claims_raw[i],
                              verdict |-> claim_verdict(result, claims_raw[i])]]
        verified_count == Cardinality({i \in 1..Len(claims_raw) :
                                         claim_verdicts[i].verdict = "verified"})
        debunked_count == Cardinality({i \in 1..Len(claims_raw) :
                                         claim_verdicts[i].verdict = "debunked"})
        llm_verdict == Or(result.overall_verdict, "unverified")
        overall_verdict ==
            IF llm_verdict = "unverified" /\ Len(claims_raw) > 0
            THEN IF verified_count = Len(claims_raw) THEN "verified"
                 ELSE IF debunked_count = Len(claims_raw) THEN "debunked"
                 ELSE IF verified_count > debunked_count THEN "mostly_verified"
                 ELSE IF debunked_count > verified_count THEN "mostly_debunked"
                 ELSE "mixture"
            ELSE llm_verdict
    IN [status_code |-> 200,
        source_identity |-> [trust_level |-> Get(result.credibility, "trust_level", "unknown")],
        claims |-> claim_verdicts,
        verdict |-> [overall_verdict |-> overall_verdict,
                     summary |-> result.summary,
                     total_claims |-> Len(claims_raw),
                     verified_count |-> verified_count,
                     debunked_count |-> debunked_count,
                     sources |-> result.sources],
        search_insights |-> result.search_insights]

\* The request arrives: the body is validated against AnalysisRequest (422),
\* the handler rejects a request with neither url nor selection (400), or it
\* calls run_orchestrator(url or " ", selection or "")
analyze_content ==
    /\ pc = "analyze_content"
    /\ IF ~IsHttpUrl(request.url)
       THEN /\ response' = [status_code |-> 422, detail |-> "url"]
            /\ pc' = "responded"
            /\ UNCHANGED state
       ELSE IF ~Truthy(request.url) /\ ~Truthy(request.selection)
       THEN /\ response' = [status_code |-> 400,
                            detail |-> "Either 'url' or 'selection' must be provided."]
            /\ pc' = "responded"
            /\ UNCHANGED state
       ELSE /\ state' = initial_state(Or(request.url, " "), Or(request.selection, ""))
            /\ pc' = "credibility_node"
            /\ UNCHANGED response
    /\ UNCHANGED <<nodeState, config, executed, calls, report, request>>
    /\ UNCHANGED serviceVars

\* run_orchestrator returned: the handler answers 200 with the response
analyze_content_return ==
    /\ pc = "returned"
    /\ response' = AnalysisResponse(report)
    /\ pc' = "responded"
    /\ UNCHANGED <<state, nodeState, config, executed, calls, report, request>>
    /\ UNCHANGED serviceVars

\* run_orchestrator raised: the handler's except answers 500
analyze_content_except ==
    /\ pc = "raised"
    /\ response' = [status_code |-> 500, detail |-> "Analysis failed"]
    /\ pc' = "responded"
    /\ UNCHANGED <<state, nodeState, config, executed, calls, report, request>>
    /\ UNCHANGED serviceVars

----------------------------------------------------------------------------
(* Cancellation of a run: CancelledError is raised at the await the run is *)
(* suspended in; it is a BaseException, so no except Exception catches it  *)

\* The node's dict when the run is cancelled while the per-claim call after
\* `partial` is awaited: the results so far are in a local list that is
\* assigned to the state only after the loop
factcheck_cancelled_inplace(st, partial) == [st EXCEPT !.fact_checks = partial]
factcheck_cancelled(st, partial) == st

search_cancelled_inplace(st, partial) == [st EXCEPT !.search_insights = partial]
search_cancelled(st, partial) == st

\* Cancelled between two steps, or in a step outside a per-claim loop: the
\* engine keeps the channels the completed steps wrote
cancel_at_boundary ==
    /\ pc \in {"credibility_node", "extraction_node", "search_enrichment_node",
               "factcheck_node", "compile_report_node"}
    /\ pc' = "cancelled"
    /\ UNCHANGED <<state, nodeState, config, executed, calls, report, request, response>>
    /\ UNCHANGED serviceVars

\* Cancelled while agent.run(claims[k]) of search_enrichment_node is in flight
cancel_in_search(Outs) ==
    /\ pc = "search_enrichment_node"
    /\ SearchRuns(state, config)
    /\ \E k \in 1..Len(state.claims) : \E outs \in [1..(k - 1) -> Outs] :
         LET partial == EnrichLoop(SubSeq(state.claims, 1, k - 1), outs, config.TAVILY_API_KEY)
         IN /\ nodeState' = search_cancelled(state, partial)
            /\ calls' = [calls EXCEPT !.search = outs]
    /\ executed' = Append(executed, "search_enrichment_node")
    /\ pc' = "cancelled"
    /\ UNCHANGED <<state, config, report, request, response>>
    /\ UNCHANGED serviceVars

\* Cancelled while agent.run(claims[k]) of factcheck_node is in flight
cancel_in_factcheck(Outs) ==
    /\ pc = "factcheck_node"
    /\ FactCheckRuns(state)
    /\ ~FactCheckAgent_init_raises(config)
    /\ \E k \in 1..Len(state.claims) : \E outs \in [1..(k - 1) -> Outs] :
         LET partial == FactCheckLoop(SubSeq(state.claims, 1, k - 1), outs, EmptyDict,
                                      config.GOOGLE_FACT_CHECK_API_KEY)
         IN /\ nodeState' = factcheck_cancelled(state, partial)
            /\ calls' = [calls EXCEPT !.factcheck = outs]
    /\ executed' = Append(executed, "factcheck_node")
    /\ pc' = "cancelled"
    /\ UNCHANGED <<state, config, report, request, response>>
    /\ UNCHANGED serviceVars

----------------------------------------------------------------------------
(* The fact-checker service: AsyncFactChecker (agent3/fact_checker.py) *)

\* Claim texts sent to the service; two of them differ only in case and blanks
BatchTexts == {"Claim A ", "claim a", "claim b"}

\* _hash_claim: the SHA-256 digest of the lower-cased, trimmed text
hash_claim(claim) == <<"sha256", Normalize(claim)>>

\* _check_cache: the stored result, or NoneDict for None
check_cache(claim) ==
    IF ~settings.cache_enabled THEN NoneDict
    ELSE IF hash_claim(claim) \in DOMAIN checker_cache
         THEN checker_cache[hash_claim(claim)]
         ELSE NoneDict

\* _save_to_cache: the cache afterwards
save_to_cache(claim, result) ==
    IF ~settings.cache_enabled THEN checker_cache
    ELSE [h \in DOMAIN checker_cache \cup {hash_claim(claim)} |->
            IF h = hash_claim(claim) THEN result ELSE checker_cache[h]]

\* What one request to the Google API can do
GoogleApiOutcomes ==
    { [kind |-> "json", body |-> [claims |-> <<>>]],
      [kind |-> "json", body |-> [claims |-> <<[claimReview |->
                    <<[textualRating |-> RatingText, url |-> U2]>>]>>]],
      [kind |-> "json", body |-> [claims |-> <<[claimReview |-> <<>>]>>]],
      [kind |-> "status", status |-> 500],
      [kind |-> "timeout"],
      [kind |-> "error"] }

\* _call_google_api: the JSON body of a 200 response, else {"claims": []}
call_google_api(out) ==
    IF out.kind = "json" THEN out.body ELSE [claims |-> <<>>]

\* str.lower on the ratings of the model, and the words a lowered rating contains
Lower(s) == IF s = RatingText THEN "mostly true" ELSE s
WordsIn(rating) == IF rating = "mostly true" THEN {"mostly", "true"} ELSE {}

map_rating_to_status(rating) ==
    IF WordsIn(rating) \cap {"false", "pants on fire", "incorrect"} # {} THEN "debunked"
    ELSE IF WordsIn(rating) \cap {"true", "correct", "accurate"} # {} THEN "verified"
    ELSE IF WordsIn(rating) \cap {"mixture", "half", "mostly"} # {} THEN "mixture"
    ELSE "unverified"

\* _parse_api_response: the standard result, or the IndexError of [][0]
parse_api_response(api_response, original_claim) ==
    LET cs == Get(api_response, "claims", <<>>)
    IN IF cs = <<>>
       THEN [raised |-> FALSE,
             value |-> [claim |-> original_claim, status |-> "unverified",
                        reason |-> "No fact-checks available",
                        textual_rating |-> NoneVal, corroboration_url |-> NoneVal]]
       ELSE LET reviews == Get(cs[1], "claimReview", <<EmptyDict>>)
            IN IF reviews = <<>> THEN [raised |-> TRUE]
               ELSE LET textual_rating == Lower(Get(reviews[1], "textualRating", ""))
                    IN [raised |-> FALSE,
                        value |-> [claim |-> original_claim,
                                   status |-> map_rating_to_status(textual_rating),
                                   textual_rating |-> textual_rating,
                                   corroboration_url |-> Get(reviews[1], "url", NoneVal)]]

\* The event loop runs the coroutines of gather in argument order, each up to
\* its first await, before any awaited response is delivered
AllStarted == \A j \in 1..Len(tasks) : tasks[j].pc # "created"

\* verify, up to the await of the API call: a cache hit returns at once
verify_check_cache(i) ==
    /\ i \in 1..Len(tasks)
    /\ tasks[i].pc = "created"
    /\ \A j \in 1..(i - 1) : tasks[j].pc # "created"
    /\ LET cached_result == check_cache(tasks[i].claim)
       IN IF cached_result # NoneDict
          THEN /\ tasks' = [tasks EXCEPT ![i].pc = "done", ![i].hit = TRUE,
                                         ![i].done_clears = cache_clears,
                                         ![i].ret = [raised |-> FALSE, value |-> cached_result]]
               /\ completed' = Append(completed, i)
          ELSE /\ tasks' = [tasks EXCEPT ![i].pc = "api"]
               /\ UNCHANGED completed
    /\ UNCHANGED <<settings, checker_cache, batch_claims, results, cache_clears>>
    /\ UNCHANGED <<pipelineVars, engineVars, cacheVars, extractorVars, scanVars>>

\* verify, from the API response on: parse, save to the cache, return
verify_api_return(i) ==
    /\ i \in 1..Len(tasks)
    /\ tasks[i].pc = "api"
    /\ AllStarted
    /\ \E out \in GoogleApiOutcomes :
        LET result == parse_api_response(call_google_api(out), tasks[i].claim)
        IN /\ tasks' = [tasks EXCEPT ![i].pc = "done", ![i].ret = result,
                                      ![i].done_clears = cache_clears]
           /\ checker_cache' = IF result.raised THEN checker_cache
                               ELSE save_to_cache(tasks[i].claim, result.value)
    /\ completed' = Append(completed, i)
    /\ UNCHANGED <<settings, batch_claims, results, cache_clears>>
    /\ UNCHANGED <<pipelineVars, engineVars, cacheVars, extractorVars, scanVars>>

\* The list asyncio.gather(*tasks, return_exceptions=True) hands back
gather_completionorder == [k \in 1..Len(tasks) |-> tasks[completed[k]].ret]
gather == [i \in 1..Len(tasks) |-> tasks[i].ret]

\* verify_multiple, after gather: exceptions become placeholders
verify_multiple_return ==
    /\ tasks # <<>>
    /\ \A i \in 1..Len(tasks) : tasks[i].pc = "done"
    /\ results = NoneDict
    /\ results' = [value |-> [i \in 1..Len(tasks) |->
                     IF gather[i].raised
                     THEN [claim |-> batch_claims[i], status |-> "unverified",
                           reason |-> "Processing error"]
                     ELSE gather[i].value]]
    /\ UNCHANGED <<settings, checker_cache, batch_claims, tasks, completed, cache_clears>>
    /\ UNCHANGED <<pipelineVars, engineVars, cacheVars, extractorVars, scanVars>>

----------------------------------------------------------------------------
(* The fact-checker service: its HTTP endpoints (agent3/main.py) *)

\* Bodies of POST /verify (VerifyRequest: every field optional)
VerifyRequests ==
    [url : {NoneVal, "", InputUrl},
     selection : {NoneVal, "", "Claim A ", "claim b"},
     force_refresh : BOOLEAN]

HTTPException(status_code) == [exc |-> "HTTPException", status_code |-> status_code]

\* The except clauses of verify_endpoint: an HTTPException is re-raised as it
\* is, any other exception becomes a 500
verify_endpoint_except_all500(e) == HTTPException(500)
verify_endpoint_except(e) ==
    IF e.exc = "HTTPException" THEN e ELSE HTTPException(500)

\* The response FastAPI sends for an HTTPException
error_response(e) == [status_code |-> e.status_code]

\* A call of fact_checker.verify(claim) outside gather: the coroutine runs up
\* to its first await at once, so the cache check happens at the call
verify_begin(claim) ==
    LET cached_result == check_cache(claim)
        hit == cached_result # NoneDict
    IN /\ tasks' = Append(tasks,
                      [pc |-> IF hit THEN "done" ELSE "api",
                       claim |-> claim,
                       ret |-> IF hit THEN [raised |-> FALSE, value |-> cached_result]
                               ELSE NoneDict,
                       hit |-> hit,
                       started_after |-> {j \in 1..Len(tasks) :
                                            /\ tasks[j].pc = "done"
                                            /\ tasks[j].done_clears = cache_clears},
                       done_clears |-> cache_clears])
       /\ completed' = IF hit THEN Append(completed, Len(tasks) + 1) ELSE completed

\* POST /verify arrives
verify_endpoint ==
    /\ pc = "verify_endpoint"
    /\ IF Truthy(request.selection)
       THEN /\ verify_begin(request.selection)
            /\ pc' = "verify"
            /\ UNCHANGED response
       ELSE /\ response' = error_response(verify_endpoint_except(
                              HTTPException(IF Truthy(request.url) THEN 501 ELSE 400)))
            /\ pc' = "responded"
            /\ UNCHANGED <<tasks, completed>>
    /\ UNCHANGED <<state, nodeState, config, executed, calls, report, request>>
    /\ UNCHANGED <<settings, checker_cache, batch_claims, results, cache_clears>>
    /\ UNCHANGED <<engineVars, cacheVars, extractorVars, scanVars>>

\* fact_checker.verify has finished: the handler answers, or its except
\* clause turns the exception of verify into an HTTP error
verify_endpoint_return ==
    /\ pc = "verify"
    /\ tasks[Len(tasks)].pc = "done"
    /\ LET result == tasks[Len(tasks)].ret
       IN response' =
            IF result.raised
            THEN error_response(verify_endpoint_except([exc |-> "IndexError"]))
            ELSE [status_code |-> 200, status |-> "success", mode |-> "granular",
                  data |-> [source |-> NoneVal, claims |-> <<result.value>>]]
    /\ pc' = "responded"
    /\ UNCHANGED <<state, nodeState, config, executed, calls, report, request>>
    /\ UNCHANGED serviceVars

\* A request that reaches fact_checker.verify(claim)
verify_call(claim) ==
    /\ Len(tasks) < MaxVerifies
    /\ verify_begin(claim)
    /\ UNCHANGED <<settings, checker_cache, batch_claims, results, cache_clears>>
    /\ UNCHANGED <<pipelineVars, engineVars, cacheVars, extractorVars, scanVars>>

\* DELETE /cache: fact_checker.cache.clear()
clear_cache ==
    /\ cache_clears < MaxClears
    /\ checker_cache' = EmptyDict
    /\ cache_clears' = cache_clears + 1
    /\ UNCHANGED <<settings, batch_claims, tasks, completed, results>>
    /\ UNCHANGED <<pipelineVars, engineVars, cacheVars, extractorVars, scanVars>>

----------------------------------------------------------------------------
(* The Redis cache helpers (app/core/cache.py) *)

CacheKeys == {"claim:a", "claim:b"}
CacheValues == {"v1", "v2"}

\* Redis stores strings as bytes and hands bytes back
Bytes(v) == [bytes |-> v]

\* cache_get: what the caller sees. `fault` is TRUE iff the Redis operation
\* raises (server unreachable, timeout, protocol error)
cache_get_result_noexcept(client, store, key, fault) ==
    IF client = NoneVal THEN [raised |-> FALSE, value |-> NoneVal]
    ELSE IF fault THEN [raised |-> TRUE]
    ELSE [raised |-> FALSE, value |-> IF key \in DOMAIN store THEN store[key] ELSE NoneVal]
cache_get_result(client, store, key, fault) ==
    IF client = NoneVal THEN [raised |-> FALSE, value |-> NoneVal]
    ELSE IF fault THEN [raised |-> FALSE, value |-> NoneVal]
    ELSE [raised |-> FALSE, value |-> IF key \in DOMAIN store THEN store[key] ELSE NoneVal]

cache_get(key) ==
    /\ \E fault \in BOOLEAN :
         cache_op' = [op |-> "cache_get", key |-> key, client |-> redis_client,
                      fault |-> fault,
                      ret |-> cache_get_result(redis_client, redis_store, key, fault)]
    /\ UNCHANGED <<redis_client, redis_store>>
    /\ UNCHANGED <<pipelineVars, checkerVars, engineVars, extractorVars, scanVars>>

\* cache_set returns None; a fault is logged
cache_set_result_noexcept(client, fault) ==
    IF client # NoneVal /\ fault THEN [raised |-> TRUE]
    ELSE [raised |-> FALSE, value |-> NoneVal]
cache_set_result(client, fault) == [raised |-> FALSE, value |-> NoneVal]

cache_set(key, value) ==
    /\ \E fault \in BOOLEAN :
         /\ cache_op' = [op |-> "cache_set", key |-> key, client |-> redis_client,
                         fault |-> fault, ret |-> cache_set_result(redis_client, fault)]
         /\ redis_store' =
              IF redis_client = NoneVal \/ fault THEN redis_store
              ELSE [k \in DOMAIN redis_store \cup {key} |->
                       IF k = key THEN Bytes(value) ELSE redis_store[k]]
    /\ UNCHANGED redis_client
    /\ UNCHANGED <<pipelineVars, checkerVars, engineVars, extractorVars, scanVars>>

\* cache_delete returns None; a fault is logged
cache_delete_result_noexcept(client, fault) ==
    IF client # NoneVal /\ fault THEN [raised |-> TRUE]
    ELSE [raised |-> FALSE, value |-> NoneVal]
cache_delete_result(client, fault) == [raised |-> FALSE, value |-> NoneVal]

cache_delete(key) ==
    /\ \E fault \in BOOLEAN :
         /\ cache_op' = [op |-> "cache_delete", key |-> key, client |-> redis_client,
                         fault |-> fault, ret |-> cache_delete_result(redis_client, fault)]
         /\ redis_store' =
              IF redis_client = NoneVal \/ fault THEN redis_store
              ELSE [k \in DOMAIN redis_store \ {key} |-> redis_store[k]]
    /\ UNCHANGED redis_client
    /\ UNCHANGED <<pipelineVars, checkerVars, engineVars, extractorVars, scanVars>>

\* init_global_cache: a failed ping unsets the client
init_global_cache ==
    /\ redis_client # NoneVal
    /\ \E ping \in {"ok", "fail"} :
         redis_client' = IF ping = "ok" THEN redis_client ELSE NoneVal
    /\ UNCHANGED <<redis_store, cache_op>>
    /\ UNCHANGED <<pipelineVars, checkerVars, engineVars, extractorVars, scanVars>>

\* The fact-checker service is not part of a pipeline run
CheckerIdle ==
    /\ settings = [cache_enabled |-> TRUE]
    /\ checker_cache = EmptyDict
    /\ batch_claims = <<>>
    /\ tasks = <<>>
    /\ completed = <<>>
    /\ results = NoneDict
    /\ cache_clears = 0

\* No concurrent invocation is modelled
EngineIdle ==
    /\ runs = <<>>
    /\ memory = EmptyDict

\* The Redis cache helpers are not called
CacheIdle ==
    /\ redis_client = NoneVal
    /\ redis_store = EmptyDict
    /\ cache_op = NoneDict

\* The claim extractor service is not called
ExtractorIdle ==
    /\ agent2_cache = EmptyDict
    /\ extracts = <<>>

\* No urlscan submission is modelled
ScanIdle == scan = NoneDict

ServicesIdle == CheckerIdle /\ EngineIdle /\ CacheIdle /\ ExtractorIdle /\ ScanIdle

----------------------------------------------------------------------------
(* Specifications *)

InitOn(Runs) ==
    /\ pc = "credibility_node"
    /\ \E inp \in Runs : state = initial_state(inp.url, inp.selection)
    /\ nodeState = EmptyDict
    /\ config \in [TAVILY_API_KEY : BOOLEAN, GOOGLE_FACT_CHECK_API_KEY : BOOLEAN]
    /\ executed = <<>>
    /\ calls = [credibility |-> NoneDict, extraction |-> NoneDict,
                search |-> <<>>, factcheck |-> <<>>,
                compile |-> NoneDict]
    /\ report = NoneDict
    /\ request = NoneDict
    /\ response = NoneDict
    /\ ServicesIdle

\* The whole pipeline: every run input and credibility outcome, two outcomes
\* per claim for each fan-out collaborator
SearchFew == { [search |-> "error"],
               [search |-> "ok", llm |-> "ok", key_sources |-> <<[title |-> "t", url |-> U1ws]>>] }
FactFew == { [api |-> [kind |-> "error"], chain |-> [llm |-> "fail"]],
             [api |-> [kind |-> "ok", claims |-> <<>>],
              chain |-> [llm |-> "ok", verdict |-> [verdict |-> "verified",
                                                    corroboration_url |-> U1]]] }

Init == InitOn(RunInputs)

Next ==
    \/ credibility_node(CredOutcomes)
    \/ conditional_edge
    \/ extraction_node(ExtractFew)
    \/ search_enrichment_node(SearchFew)
    \/ factcheck_node(FactFew)
    \/ compile_report_node(CompileOutcomes)
    \/ run_orchestrator_return

Spec == Init /\ [][Next]_vars

\* The fact-check fan-out in full: one run input, a trusted source, every
\* outcome of the Google tool and of the LLM chain for each claim
RunOne == { [url |-> InputUrl, selection |-> NoneVal] }
CredHigh == { [tool |-> "ok", llm |-> "ok", trust_level |-> "high"] }
SearchOne == { [search |-> "ok", llm |-> "ok", key_sources |-> <<[title |-> "t", url |-> U1ws]>>] }

InitFact == InitOn(RunOne)

NextFact ==
    \/ credibility_node(CredHigh)
    \/ conditional_edge
    \/ extraction_node(ExtractFew)
    \/ search_enrichment_node(SearchOne)
    \/ factcheck_node(FactOutcomes)
    \/ compile_report_node(CompileOutcomes)
    \/ run_orchestrator_return

SpecFact == InitFact /\ [][NextFact]_vars

\* The search fan-out in full: every outcome of the Tavily tool and of the LLM
\* chain for each claim
CompileFew == { [llm |-> "fail"],
                [llm |-> "ok", compiled |-> [overall_verdict |-> "debunked",
                                             summary |-> Text("narrative")]] }

InitSearch == InitOn(RunOne)

NextSearch ==
    \/ credibility_node(CredHigh)
    \/ conditional_edge
    \/ extraction_node(ExtractFew)
    \/ search_enrichment_node(SearchOutcomes)
    \/ factcheck_node(FactFew)
    \/ compile_report_node(CompileFew)
    \/ run_orchestrator_return

SpecSearch == InitSearch /\ [][NextSearch]_vars

\* The extraction step in full: every list of claims the extraction agent can
\* return, one outcome per claim for the fan-out collaborators
FactOne == { [api |-> [kind |-> "ok", claims |-> <<>>],
              chain |-> [llm |-> "ok", verdict |-> [verdict |-> "verified",
                                                    corroboration_url |-> U1]]] }
CompileOne == { [llm |-> "fail"] }

InitExtract == InitOn(RunInputs)

NextExtract ==
    \/ credibility_node(CredOutcomes)
    \/ conditional_edge
    \/ extraction_node(ExtractOutcomes)
    \/ search_enrichment_node(SearchOne)
    \/ factcheck_node(FactOne)
    \/ compile_report_node(CompileOne)
    \/ run_orchestrator_return

SpecExtract == InitExtract /\ [][NextExtract]_vars

\* The endpoint around the pipeline: every request body, every credibility
\* outcome, two outcomes per claim for each fan-out collaborator
InitApi ==
    /\ pc = "analyze_content"
    /\ request \in Requests
    /\ response = NoneDict
    /\ state = EmptyDict
    /\ nodeState = EmptyDict
    /\ config \in [TAVILY_API_KEY : BOOLEAN, GOOGLE_FACT_CHECK_API_KEY : BOOLEAN]
    /\ executed = <<>>
    /\ calls = [credibility |-> NoneDict, extraction |-> NoneDict,
                search |-> <<>>, factcheck |-> <<>>,
                compile |-> NoneDict]
    /\ report = NoneDict
    /\ ServicesIdle

NextApi ==
    \/ analyze_content
    \/ credibility_node(CredOutcomes)
    \/ conditional_edge
    \/ extraction_node(ExtractFew)
    \/ search_enrichment_node(SearchFew)
    \/ factcheck_node(FactFew)
    \/ compile_report_node(CompileFew)
    \/ run_orchestrator_return
    \/ analyze_content_return
    \/ analyze_content_except

SpecApi == InitApi /\ [][NextApi]_vars

\* The fact-checker service alone: one verify_multiple call on a cache that
\* is empty or holds the result of an earlier verification
PipelineIdle ==
    /\ pc = "idle"
    /\ state = EmptyDict
    /\ nodeState = EmptyDict
    /\ config = EmptyDict
    /\ executed = <<>>
    /\ calls = EmptyDict
    /\ report = NoneDict
    /\ request = NoneDict
    /\ response = NoneDict

EarlierCaches ==
    { EmptyDict,
      [h \in {hash_claim("Claim A ")} |->
          parse_api_response([claims |-> <<>>], "Claim A ").value] }

InitChecker ==
    /\ PipelineIdle
    /\ EngineIdle
    /\ ExtractorIdle
    /\ ScanIdle
    /\ CacheIdle
    /\ settings \in [cache_enabled : BOOLEAN]
    /\ checker_cache \in IF settings.cache_enabled THEN EarlierCaches ELSE {EmptyDict}
    /\ batch_claims \in SeqsUpTo(BatchTexts, MaxClaims) \ {<<>>}
    /\ tasks = [i \in 1..Len(batch_claims) |->
                  [pc |-> "created", claim |-> batch_claims[i], ret |-> NoneDict,
                   hit |-> FALSE, started_after |-> {}, done_clears |-> 0]]
    /\ completed = <<>>
    /\ results = NoneDict
    /\ cache_clears = 0

NextChecker ==
    \/ \E i \in 1..MaxClaims : verify_check_cache(i)
    \/ \E i \in 1..MaxClaims : verify_api_return(i)
    \/ verify_multiple_return

SpecChecker == InitChecker /\ [][NextChecker]_vars

\* One POST /verify request to the fact-checker service
InitVerify ==
    /\ pc = "verify_endpoint"
    /\ request \in VerifyRequests
    /\ response = NoneDict
    /\ state = EmptyDict
    /\ nodeState = EmptyDict
    /\ config = EmptyDict
    /\ executed = <<>>
    /\ calls = EmptyDict
    /\ report = NoneDict
    /\ settings \in [cache_enabled : BOOLEAN]
    /\ checker_cache \in IF settings.cache_enabled THEN EarlierCaches ELSE {EmptyDict}
    /\ batch_claims = <<>>
    /\ tasks = <<>>
    /\ completed = <<>>
    /\ results = NoneDict
    /\ cache_clears = 0
    /\ EngineIdle
    /\ ExtractorIdle
    /\ ScanIdle
    /\ CacheIdle

NextVerify ==
    \/ verify_endpoint
    \/ \E i \in 1..1 : verify_api_return(i)
    \/ verify_endpoint_return

SpecVerify == InitVerify /\ [][NextVerify]_vars

\* Two spellings of one claim, sent to the service again and again
ServiceTexts == {"Claim A ", "claim a"}

\* The fact-checker service over time: verifications arrive while others are
\* in flight, and the cache may be cleared
InitService ==
    /\ PipelineIdle
    /\ CheckerIdle
    /\ EngineIdle
    /\ ExtractorIdle
    /\ ScanIdle
    /\ CacheIdle

NextService ==
    \/ \E claim \in ServiceTexts : verify_call(claim)
    \/ \E i \in 1..MaxVerifies : verify_api_return(i)
    \/ clear_cache

SpecService == InitService /\ [][NextService]_vars



\* A run that its caller may cancel at any await
InitCancel == InitOn(RunOne)

NextCancel ==
    \/ credibility_node(CredHigh)
    \/ conditional_edge
    \/ extraction_node(ExtractFew)
    \/ search_enrichment_node(SearchFew)
    \/ factcheck_node(FactFew)
    \/ compile_report_node(CompileOne)
    \/ run_orchestrator_return
    \/ cancel_at_boundary
    \/ cancel_in_search(SearchFew)
    \/ cancel_in_factcheck(FactFew)

SpecCancel == InitCancel /\ [][NextCancel]_vars

\* The cache helpers alone, on a client created at import
InitCache ==
    /\ PipelineIdle
    /\ CheckerIdle
    /\ EngineIdle
    /\ ExtractorIdle
    /\ ScanIdle
    /\ redis_client = "Redis"
    /\ redis_store = EmptyDict
    /\ cache_op = NoneDict

NextCache ==
    \/ init_global_cache
    \/ \E key \in CacheKeys : cache_get(key)
    \/ \E key \in CacheKeys, value \in CacheValues : cache_set(key, value)
    \/ \E key \in CacheKeys : cache_delete(key)

SpecCache == InitCache /\ [][NextCache]_vars

----------------------------------------------------------------------------
(* Concurrent invocations of run_orchestrator on the one compiled graph *)

RunIds == 1..2
ThreadId == "main"
\* Channels of a thread that has no checkpoint yet
EmptyChannels == [k \in SchemaKeys |-> NoneVal]

\* Inputs of the concurrent invocations, and the one outcome every
\* collaborator has in them
ConcurrentInputs == { inp \in RunInputs : inp.url = InputUrl }
RunConfig == [TAVILY_API_KEY |-> TRUE, GOOGLE_FACT_CHECK_API_KEY |-> TRUE]
RunExtract == [raised |-> FALSE, claims |-> <<[text |-> "claim b", claim_type |-> "factual"]>>]

\* What the node named n returns on the dict st
node_return(n, st) ==
    IF n = "credibility_node"
    THEN credibility_body(st, CHOOSE out \in CredHigh : TRUE)
    ELSE IF n = "extraction_node"
    THEN extraction_body(st, RunExtract)
    ELSE IF n = "search_enrichment_node"
    THEN search_enrichment_body(st, RunConfig,
             [i \in 1..Len(st.claims) |-> CHOOSE out \in SearchOne : TRUE])
    ELSE IF n = "factcheck_node"
    THEN factcheck_body(st, RunConfig,
             [i \in 1..Len(st.claims) |-> CHOOSE out \in FactOne : TRUE])
    ELSE compile_verdict(st, CHOOSE out \in CompileOne : TRUE)

\* The edges of the workflow
next_node(n, st) ==
    IF n = "credibility_node" THEN decide_next_step(st)
    ELSE IF n = "extraction_node" THEN "search_enrichment_node"
    ELSE IF n = "search_enrichment_node" THEN "factcheck_node"
    ELSE IF n = "factcheck_node" THEN "compile_report_node"
    ELSE END

\* MemorySaver: the checkpoints of a thread in the order they were put, the
\* last one being the thread's current state
latest_checkpoint(thread_id) ==
    IF thread_id \in DOMAIN memory /\ memory[thread_id] # <<>>
    THEN memory[thread_id][Len(memory[thread_id])]
    ELSE NoneDict

put_checkpoint(thread_id, checkpoint) ==
    [t \in DOMAIN memory \cup {thread_id} |->
        IF t = thread_id
        THEN Append(IF t \in DOMAIN memory THEN memory[t] ELSE <<>>, checkpoint)
        ELSE memory[t]]

\* run_orchestrator up to the first step of graph.ainvoke: the engine loads
\* the latest checkpoint of thread "main", writes the input over its channels
\* and saves the result
run_orchestrator_call(r) ==
    /\ runs[r].pc = "idle"
    /\ \E inp \in ConcurrentInputs :
         LET saved == latest_checkpoint(ThreadId)
             base == IF saved = NoneDict THEN EmptyChannels ELSE saved.values
             channels == ApplyWrites(base, initial_state(inp.url, inp.selection))
         IN /\ runs' = [runs EXCEPT ![r] =
                          [pc |-> "credibility_node", input |-> inp,
                           state |-> channels, started_with |-> channels,
                           loaded |-> IF saved = NoneDict THEN NoneDict
                                      ELSE [run |-> saved.run,
                                            inflight |-> runs[saved.run].pc # "returned"]]]
            /\ memory' = put_checkpoint(ThreadId,
                             [run |-> r, source |-> "input", values |-> channels])
    /\ UNCHANGED <<pipelineVars, checkerVars, cacheVars, extractorVars, scanVars>>

\* One step of graph.ainvoke in run r: the node runs on the run's channels,
\* its writes are applied and the checkpoint is saved in thread "main"
run_step(r) ==
    /\ runs[r].pc \in {"credibility_node", "extraction_node", "search_enrichment_node",
                       "factcheck_node", "compile_report_node"}
    /\ LET channels == ApplyWrites(runs[r].state, node_return(runs[r].pc, runs[r].state))
       IN /\ runs' = [runs EXCEPT ![r].state = channels,
                                  ![r].pc = next_node(runs[r].pc, channels)]
          /\ memory' = put_checkpoint(ThreadId,
                           [run |-> r, source |-> runs[r].pc, values |-> channels])
    /\ UNCHANGED <<pipelineVars, checkerVars, cacheVars, extractorVars, scanVars>>

\* graph.ainvoke returns and run_orchestrator builds the report; the
\* checkpointer is left as it is
run_orchestrator_finish(r) ==
    /\ runs[r].pc = END
    /\ runs' = [runs EXCEPT ![r].pc = "returned"]
    /\ UNCHANGED memory
    /\ UNCHANGED <<pipelineVars, checkerVars, cacheVars, extractorVars, scanVars>>

InitRuns ==
    /\ PipelineIdle
    /\ CheckerIdle
    /\ CacheIdle
    /\ ExtractorIdle
    /\ ScanIdle
    /\ runs = [r \in RunIds |-> [pc |-> "idle", input |-> NoneDict, state |-> EmptyDict,
                                 started_with |-> EmptyDict, loaded |-> NoneDict]]
    /\ memory = EmptyDict

NextRuns ==
    \/ \E r \in RunIds : run_orchestrator_call(r)
    \/ \E r \in RunIds : run_step(r)
    \/ \E r \in RunIds : run_orchestrator_finish(r)

SpecRuns == InitRuns /\ [][NextRuns]_vars





----------------------------------------------------------------------------
(* Properties *)

Ran(node) == \E i \in 1..Len(executed) : executed[i] = node

\* the trust level the credibility assessment produced is low or very_low
LowTrust == Get(state.credibility, "trust_level", "unknown") \in LowLevels

\* factcheck_node was invoked and returned
FactCheckReturned ==
    /\ Ran("factcheck_node")
    /\ ~(pc = "raised" /\ executed[Len(executed)] = "factcheck_node")

VerdictOf(fc) == Get(Get(fc, "verdict", EmptyDict), "verdict", NoneVal)

\* C1: in a run whose credibility assessment gives trust level low or
\* very_low, claims, fact_checks and search_insights stay empty and no step
\* ever assigns overall_verdict or summary.
C1_LowTrustLeavesVerdictUnset ==
    LowTrust =>
        /\ state.claims = <<>>
        /\ state.fact_checks = <<>>
        /\ state.search_insights = <<>>
        /\ "overall_verdict" \notin DOMAIN nodeState
        /\ "summary" \notin DOMAIN nodeState

\* C2: the gate evaluated right after the credibility node returns END
\* exactly when the stored report's trust level is low or very_low.
C2_GateTerminatesIffLow ==
    pc = "decide_next_step" => ((decide_next_step(state) = END) <=> LowTrust)

\* C3: in a low-trust run the credibility node is the only node ever invoked.
C3_LowTrustStopsAfterCredibility ==
    LowTrust => executed = <<"credibility_node">>

\* C4 as stated: once the fact-check step has returned, fact_checks and
\* search_insights both have one entry per claim, whatever the configuration.
C4_AlignedAfterFactCheck ==
    FactCheckReturned =>
        /\ Len(state.fact_checks) = Len(state.claims)
        /\ Len(state.search_insights) = Len(state.claims)

\* C4 as amended: once the fact-check step has returned, fact_checks has one
\* entry per claim; search_insights has one entry per claim when the Tavily
\* key is configured and is empty when it is not.
C4_AlignedWhenSearchConfigured ==
    FactCheckReturned =>
        /\ Len(state.fact_checks) = Len(state.claims)
        /\ config.TAVILY_API_KEY => Len(state.search_insights) = Len(state.claims)
        /\ ~config.TAVILY_API_KEY => state.search_insights = <<>>

C4_Witness ==
    /\ FactCheckReturned
    /\ config.TAVILY_API_KEY
    /\ Len(state.claims) = 2
    /\ Len(state.search_insights) = 2
    /\ state.search_insights[1].status = "failed"
    /\ Len(state.fact_checks) = 2
    /\ "error" \in DOMAIN state.fact_checks[2]

\* C5: once state.error is non-empty, no step changes any of url, selection,
\* credibility, claims, fact_checks, search_insights or error.
C5_ErrorFreezesState ==
    [][Truthy(state.error) => \A k \in SchemaKeys : state'[k] = state[k]]_vars

C5_Witness ==
    /\ Truthy(state.error)
    /\ Ran("extraction_node")
    /\ Ran("search_enrichment_node")
    /\ Ran("factcheck_node")
    /\ pc = "compile_report_node"

\* C6: no fault raised inside a node's body leaves the engine: the run never
\* ends by raising.
C6_NoFaultEscapes ==
    pc # "raised"

\* the per-claim loop of factcheck_node ran
FactLoopRan == calls.factcheck # <<>>

ChainFailed(i) == calls.factcheck[i].chain.llm = "fail"

\* the Google API call made for claim i failed
ApiFailed(i) ==
    /\ ~ChainFailed(i)
    /\ Get(Get(state.fact_checks[i], "raw_tool_result", EmptyDict), "reason", NoneVal)
         = "API error"

IsPlaceholder(fc) ==
    /\ VerdictOf(fc) = "unverified"
    /\ "explanation" \in DOMAIN fc.verdict

FullyPopulated(j) ==
    /\ state.fact_checks[j].claim = state.claims[j]
    /\ state.fact_checks[j].verdict = calls.factcheck[j].chain.verdict
    /\ "raw_tool_result" \in DOMAIN state.fact_checks[j]

\* C7 as stated: when the fact-check collaborator (the Google API call or the
\* LLM chain) fails for exactly one claim i, fact_checks has one entry per
\* claim, entry i is an unverified placeholder with a note, every other entry
\* is the full result for its claim, and state.error is empty.
C7_OneFailureYieldsPlaceholder ==
    FactLoopRan =>
        \A i \in 1..Len(state.claims) :
            ( /\ ChainFailed(i) \/ ApiFailed(i)
              /\ \A j \in 1..Len(state.claims) \ {i} : ~(ChainFailed(j) \/ ApiFailed(j)) )
            => /\ Len(state.fact_checks) = Len(state.claims)
               /\ IsPlaceholder(state.fact_checks[i])
               /\ \A j \in 1..Len(state.claims) \ {i} : FullyPopulated(j)
               /\ ~Truthy(state.error)

\* C7 as amended: when the LLM chain of the fact-check agent fails for exactly
\* one claim i, fact_checks has one entry per claim, entry i is the unverified
\* placeholder for claims[i] with the note "Fact-check processing failed",
\* every other entry is the full result for its claim, and state.error is
\* empty.
C7_ChainFailureYieldsPlaceholder ==
    FactLoopRan =>
        \A i \in 1..Len(state.claims) :
            ( /\ ChainFailed(i)
              /\ \A j \in 1..Len(state.claims) \ {i} : ~ChainFailed(j) )
            => /\ Len(state.fact_checks) = Len(state.claims)
               /\ IsPlaceholder(state.fact_checks[i])
               /\ state.fact_checks[i].verdict.explanation = "Fact-check processing failed"
               /\ state.fact_checks[i].claim = state.claims[i]
               /\ \A j \in 1..Len(state.claims) \ {i} : FullyPopulated(j)
               /\ ~Truthy(state.error)

C7_Witness ==
    /\ FactLoopRan
    /\ Len(state.claims) = 2
    /\ ~ChainFailed(1)
    /\ ChainFailed(2)
    /\ state.claims[1] # state.claims[2]
    /\ Len(state.fact_checks) = 2
    /\ VerdictOf(state.fact_checks[1]) = "verified"

\* the per-claim loop of search_enrichment_node ran
SearchLoopRan == calls.search # <<>>

SearchFailed(i) == calls.search[i].search = "error" \/ calls.search[i].llm = "fail"

FallbackTaken ==
    /\ Ran("compile_report_node")
    /\ pc \in {END, "returned"}
    /\ TakesFallback(calls.compile)

NumWithVerdict(v) ==
    Cardinality({i \in 1..Len(state.fact_checks) : VerdictOf(state.fact_checks[i]) = v})

\* C9: the fallback overall verdict is the one the table gives for the number
\* of claims and the numbers of verified and of debunked fact checks.
C9_FallbackVerdictTable ==
    FallbackTaken =>
        LET total == Len(state.claims)
            v == NumWithVerdict("verified")
            d == NumWithVerdict("debunked")
            ov == nodeState.overall_verdict
        IN /\ total = 0 => ov = "no_claims"
           /\ (total # 0 /\ v = total) => ov = "verified"
           /\ (total # 0 /\ v # total /\ d = total) => ov = "debunked"
           /\ (total # 0 /\ v # total /\ d # total /\ v > d) => ov = "mostly_verified"
           /\ (total # 0 /\ v # total /\ d # total /\ d > v) => ov = "mostly_debunked"
           /\ (total # 0 /\ v # total /\ d # total /\ v = d) => ov = "mixture"

C9_Witness ==
    /\ FallbackTaken
    /\ Len(state.claims) = 2
    /\ NumWithVerdict("verified") = 2
    /\ nodeState.overall_verdict = "verified"

\* C10: the overall_verdict, summary and sources the report compiler computed
\* are the ones in the FinalReport that run_orchestrator returns.
C10_ReportCarriesCompiledFields ==
    (pc = "returned" /\ Ran("compile_report_node")) =>
        /\ report.overall_verdict = nodeState.overall_verdict
        /\ report.summary = nodeState.summary
        /\ {report.sources[i] : i \in 1..Len(report.sources)}
             = {nodeState.sources[i] : i \in 1..Len(nodeState.sources)}

\* the narrative LLM chain of the report compiler failed or timed out
NarrativeFailed ==
    /\ Ran("compile_report_node")
    /\ calls.compile.llm = "fail"

\* C11: when the narrative-generation chain fails, the run does not raise, and
\* the report it returns carries the fallback overall verdict and the fallback
\* summary computed from the numbers of verified and debunked fact checks.
C11_FallbackReachesReport ==
    NarrativeFailed =>
        /\ pc # "raised"
        /\ pc = "returned" =>
             /\ report.overall_verdict =
                  FallbackVerdict(Len(state.claims), NumWithVerdict("verified"),
                                  NumWithVerdict("debunked"))
             /\ report.summary =
                  FallbackSummary(Len(state.claims), NumWithVerdict("verified"),
                                  NumWithVerdict("debunked"))

\* the report compiler ran to its end
CompilerFinished ==
    /\ Ran("compile_report_node")
    /\ pc \in {END, "returned"}

\* the narrative chain returned an object carrying overall_verdict and summary
ValidShape(out) ==
    /\ out.llm = "ok"
    /\ IsDict(out.compiled)
    /\ {"overall_verdict", "summary"} \subseteq DOMAIN out.compiled

FallbackValues ==
    /\ nodeState.overall_verdict =
         FallbackVerdict(Len(state.claims), NumWithVerdict("verified"),
                         NumWithVerdict("debunked"))
    /\ nodeState.summary =
         FallbackSummary(Len(state.claims), NumWithVerdict("verified"),
                         NumWithVerdict("debunked"))

\* C12 as stated: the compiler assigns the narrative chain's overall_verdict and
\* summary when the chain returned an object carrying both, and the fallback
\* values in every other case (chain failure, non-object, object lacking a key).
C12_FallbackOnInvalidShape ==
    CompilerFinished =>
        IF ValidShape(calls.compile)
        THEN /\ nodeState.overall_verdict = calls.compile.compiled.overall_verdict
             /\ nodeState.summary = calls.compile.compiled.summary
        ELSE FallbackValues

\* C12 as amended: the compiler assigns the fallback values when the narrative
\* chain fails or returns a value that is not an object; when it returns an
\* object it assigns that object's overall_verdict and summary, with
\* "unverified" in place of a missing overall_verdict and "No summary
\* generated" in place of a missing summary.
C12_FallbackOnFailureOrNonObject ==
    CompilerFinished =>
        IF calls.compile.llm = "ok" /\ IsDict(calls.compile.compiled)
        THEN /\ nodeState.overall_verdict =
                  Get(calls.compile.compiled, "overall_verdict", "unverified")
             /\ nodeState.summary =
                  Get(calls.compile.compiled, "summary", Text("No summary generated"))
        ELSE FallbackValues

C12_Witness ==
    /\ CompilerFinished
    /\ calls.compile.llm = "ok"
    /\ calls.compile.compiled = [overall_verdict |-> "verified"]
    /\ NumWithVerdict("debunked") = 2
    /\ nodeState.overall_verdict = "verified"
    /\ nodeState.summary = Text("No summary generated")

\* the URLs in the compiled sources list
CompiledSources == {nodeState.sources[i] : i \in 1..Len(nodeState.sources)}

\* the corroboration URL of every fact check that has one
CorroborationUrls ==
    { state.fact_checks[i].verdict.corroboration_url :
        i \in { j \in 1..Len(state.fact_checks) :
                  Truthy(Get(state.fact_checks[j].verdict, "corroboration_url", NoneVal)) } }

\* for every fact check, its source_url, or its corroboration_url when it has
\* no source_url
FactCheckUrls ==
    { Or(Get(state.fact_checks[i].verdict, "source_url", NoneVal),
         Get(state.fact_checks[i].verdict, "corroboration_url", NoneVal)) :
        i \in 1..Len(state.fact_checks) } \ {NoneVal, ""}

\* the key-source URLs of every search insight that has insights
KeySourceUrls ==
    UNION { { state.search_insights[i].insights.key_sources[k].url :
                k \in 1..Len(state.search_insights[i].insights.key_sources) } :
            i \in { j \in 1..Len(state.search_insights) :
                      state.search_insights[j].insights # NoneDict } }

\* u without its leading and trailing whitespace
Trimmed(u) == IF u = " https://src.example/1 " THEN "https://src.example/1" ELSE u

\* C13 as stated: after compilation, sources is the union of the corroboration
\* URLs of the fact checks and the key-source URLs of the search insights, each
\* URL exactly as it was given.
C13_SourcesExactUnion ==
    CompilerFinished => CompiledSources = CorroborationUrls \cup KeySourceUrls

\* C13 as amended: after compilation, sources is the set of the URLs, each with
\* its leading and trailing whitespace stripped, of (a) every fact check's
\* source_url, or its corroboration_url when it has no source_url, and (b) the
\* key sources of every search insight.
C13_SourcesStrippedUnion ==
    CompilerFinished =>
        CompiledSources = { Trimmed(u) : u \in FactCheckUrls \cup KeySourceUrls }

C13_Witness ==
    /\ CompilerFinished
    /\ Len(state.fact_checks) = 2
    /\ Get(state.fact_checks[1].verdict, "source_url", NoneVal) = U2
    /\ Get(state.fact_checks[1].verdict, "corroboration_url", NoneVal) = U1ws
    /\ Get(state.fact_checks[2].verdict, "corroboration_url", NoneVal) = NoneVal
    /\ U1ws \in KeySourceUrls
    /\ CompiledSources = {U1, U2}

\* C14: the compiled sources list holds no URL string twice, however many
\* fact checks and search insights cite the same URL.
C14_SourcesHaveNoDuplicate ==
    CompilerFinished =>
        \A i, j \in 1..Len(nodeState.sources) :
            i # j => nodeState.sources[i] # nodeState.sources[j]

C14_Witness ==
    /\ CompilerFinished
    /\ Len(state.fact_checks) = 2
    /\ Get(state.fact_checks[1].verdict, "corroboration_url", NoneVal) = U1
    /\ Get(state.fact_checks[2].verdict, "corroboration_url", NoneVal) = U1
    /\ Len(state.search_insights) = 2
    /\ U1ws \in KeySourceUrls
    /\ nodeState.sources = <<U1>>

\* the credibility assessment returned a report whose trust level is unknown
UnknownTrust ==
    /\ Ran("credibility_node")
    /\ Get(state.credibility, "trust_level", NoneVal) = "unknown"

\* C15: after a credibility report with trust level unknown, state.error is
\* empty when the credibility step ends, the gate routes to extraction, and the
\* extraction step is entered with no error set.
C15_UnknownTrustContinues ==
    UnknownTrust =>
        /\ pc = "decide_next_step" => decide_next_step(state) = "extraction_node"
        /\ pc \in {"decide_next_step", "extraction_node"} => ~Truthy(state.error)
        /\ pc \notin {"decide_next_step", "extraction_node"} => Ran("extraction_node")

C15_Witness ==
    /\ UnknownTrust
    /\ calls.credibility.llm = "ok"
    /\ Ran("extraction_node")
    /\ Len(state.claims) = 2
    /\ ~Truthy(state.error)

\* agent.run raised: the fault left the credibility agent (the URL scan tool)
ToolFault ==
    /\ Ran("credibility_node")
    /\ calls.credibility # NoneDict
    /\ calls.credibility.tool = "raise"

\* the verdict LLM chain failed inside the credibility agent
ChainFault ==
    /\ Ran("credibility_node")
    /\ calls.credibility # NoneDict
    /\ calls.credibility.tool = "ok"
    /\ calls.credibility.llm = "fail"

\* the run goes on to claim extraction as it does for an unknown trust level
ContinuesAsUnknown ==
    /\ Get(state.credibility, "trust_level", NoneVal) = "unknown"
    /\ pc = "decide_next_step" => decide_next_step(state) = "extraction_node"
    /\ pc \in {"decide_next_step", "extraction_node"} => ~Truthy(state.error)
    /\ pc \notin {"decide_next_step", "extraction_node"} => Ran("extraction_node")

\* C16 as stated: after any fault of the credibility collaborator (the tool or
\* the LLM chain) the stored trust level is unknown and the run goes on to
\* claim extraction with no error set.
C16_AnyFaultTreatedAsUnknown ==
    (ToolFault \/ ChainFault) => ContinuesAsUnknown

\* C16 as amended: a failure of the verdict LLM chain inside the agent is
\* reported as trust level unknown and the run goes on to claim extraction; a
\* fault that leaves the agent is recorded as state.error "Credibility check
\* failed: ...", no report is stored, and no later step produces claims, fact
\* checks or search insights.
C16_ChainFaultUnknownToolFaultError ==
    /\ ChainFault => ContinuesAsUnknown
    /\ ToolFault =>
         /\ state.error = "Credibility check failed: urlscan"
         /\ state.credibility = EmptyDict
         /\ state.claims = <<>>
         /\ state.fact_checks = <<>>
         /\ state.search_insights = <<>>

C16_Witness ==
    /\ ToolFault
    /\ Ran("extraction_node")
    /\ Ran("search_enrichment_node")
    /\ Ran("factcheck_node")
    /\ state.error = "Credibility check failed: urlscan"

\* C17 as stated: when the trust level is low or very_low, state.error stays
\* empty.
C17_LowTrustIsNotAnError ==
    LowTrust => ~Truthy(state.error)

\* C17 as amended: when the trust level is low or very_low, the credibility
\* step sets state.error to "Source credibility too low to proceed", and
\* state.error has that value in no other run.
C17_LowTrustSetsError ==
    /\ LowTrust => state.error = "Source credibility too low to proceed"
    /\ state.error = "Source credibility too low to proceed" => LowTrust

C17_Witness ==
    /\ pc = "decide_next_step"
    /\ Get(state.credibility, "trust_level", NoneVal) = "very_low"
    /\ state.error = "Source credibility too low to proceed"

\* the fields of the FinalReport model
ReportFields ==
    {"url", "credibility", "claims", "fact_checks", "search_insights",
     "overall_verdict", "summary", "sources"}

\* C18: the FinalReport returned for a low-trust run carries a status flag
\* beside the report fields, or has no overall verdict, so that it differs
\* from a compiled report whose overall_verdict is "unverified".
C18_LowTrustReportIsDistinct ==
    (pc = "returned" /\ LowTrust) =>
        \/ DOMAIN report \ ReportFields # {}
        \/ "overall_verdict" \notin DOMAIN report
        \/ report.overall_verdict \in {NoneVal, ""}

\* the credibility step or the extraction step failed entirely
UpstreamFailed ==
    state.error \in {"Credibility check failed: urlscan",
                     "Claim extraction failed: agent error"}

\* C19: when the credibility or the extraction step fails entirely, the run
\* does not raise, and the report it returns holds the fields populated before
\* the failure together with the error message of state.error.
C19_FailureReportCarriesError ==
    UpstreamFailed =>
        /\ pc # "raised"
        /\ pc = "returned" =>
             /\ report.url = state.url
             /\ report.credibility = state.credibility
             /\ report.claims = state.claims
             /\ Get(report, "error", NoneVal) = state.error

\* the request carries neither a url nor a selection
NeitherSupplied == ~Truthy(request.url) /\ ~Truthy(request.selection)

\* C20: a request with neither url nor selection is answered with an error
\* response, and, rejections of an ill-formed body by request validation
\* aside, no other request is: the endpoint answers 200 whenever a url or a
\* selection was supplied.
C20_FaultOnlyForEmptyInvocation ==
    pc = "responded" =>
        /\ NeitherSupplied => response.status_code # 200
        /\ response.status_code \notin {200, 422} => NeitherSupplied

\* the extraction agent was called and returned a list of claims
ExtractionSucceeded ==
    /\ Ran("extraction_node")
    /\ calls.extraction # NoneDict
    /\ ~calls.extraction.out.raised

\* the positions of the factual claims in the returned list, and the k-th of them
FactualPositions ==
    { i \in 1..Len(calls.extraction.out.claims) :
        calls.extraction.out.claims[i].claim_type = "factual" }
KthFactual(k) ==
    CHOOSE i \in FactualPositions : Cardinality({j \in FactualPositions : j <= i}) = k

\* C21: after an extraction step whose agent returned, state.claims is the
\* texts of the returned claims of type factual, in the order returned, and
\* holds no entry for a claim of type opinion, mixed or ambiguous.
C21_ClaimsAreFactualTextsInOrder ==
    ExtractionSucceeded =>
        /\ Len(state.claims) = Cardinality(FactualPositions)
        /\ \A k \in 1..Len(state.claims) :
             state.claims[k] = calls.extraction.out.claims[KthFactual(k)].text

C21_Witness ==
    /\ ExtractionSucceeded
    /\ calls.extraction.out.claims =
         <<[text |-> "Claim A ", claim_type |-> "ambiguous"],
           [text |-> "claim b", claim_type |-> "factual"]>>
    /\ state.claims = <<"claim b">>
    /\ Ran("factcheck_node")

\* C22: whenever the extraction step calls the claim-extraction agent, the
\* agent's url argument is the run's url, and when the run has a non-empty
\* selection its selection argument is that selection.
C22_AgentReceivesUrlAndSelection ==
    (Ran("extraction_node") /\ calls.extraction # NoneDict) =>
        /\ calls.extraction.args.url.type = "str"
        /\ calls.extraction.args.url.value = state.url
        /\ Truthy(state.selection) =>
             calls.extraction.args.selection.value = state.selection

StepNames ==
    {"credibility_node", "extraction_node", "search_enrichment_node",
     "factcheck_node", "compile_report_node"}

\* the run is over: the engine has reached END, or the run returned or raised
RunEnded == pc \in {END, "returned", "raised"}

\* C23: no step is executed twice in a run, and once the run has ended no step
\* is executed any more, so a step the run skipped is never executed later.
C23_EachStepAtMostOnce ==
    [][ /\ \A i, j \in 1..Len(executed') :
             (i # j => executed'[i] # executed'[j]) /\ executed'[i] \in StepNames
        /\ RunEnded => executed' = executed ]_vars

C23_Witness ==
    /\ pc = "returned"
    /\ executed = <<"credibility_node", "extraction_node", "search_enrichment_node",
                    "factcheck_node", "compile_report_node">>
    /\ Len(state.fact_checks) = 2

StepOrder ==
    <<"credibility_node", "extraction_node", "search_enrichment_node",
      "factcheck_node", "compile_report_node">>

\* C24: the steps executed so far are always an initial part of the order
\* credibility, extraction, enrichment, fact check, compile, and a step starts
\* on the state its predecessor returned.
C24_StepsRunInOrder ==
    /\ Len(executed) <= Len(StepOrder)
    /\ \A i \in 1..Len(executed) : executed[i] = StepOrder[i]
    /\ pc \in StepNames => pc = StepOrder[Len(executed) + 1]
    /\ (pc \in StepNames \cup {"decide_next_step"} /\ executed # <<>>) =>
           \A k \in SchemaKeys : state[k] = nodeState[k]

C24_Witness ==
    /\ pc = "compile_report_node"
    /\ executed = <<"credibility_node", "extraction_node", "search_enrichment_node",
                    "factcheck_node">>
    /\ Len(state.claims) = 2
    /\ Len(nodeState.fact_checks) = 2
    /\ Len(state.search_insights) = 2

\* C25: the list verify_multiple returns has one entry per input claim; entry i
\* is what verify returned for claims[i] (a result for the same normalized
\* claim text), whatever the order in which the verifications finished; where
\* verify raised, entry i is the unverified placeholder for claims[i]
Placeholder(claim) ==
    [claim |-> claim, status |-> "unverified", reason |-> "Processing error"]
C25_ResultsAlignedWithClaims ==
    results # NoneDict =>
        /\ Len(results.value) = Len(batch_claims)
        /\ \A i \in 1..Len(batch_claims) :
              IF tasks[i].ret.raised
              THEN results.value[i] = Placeholder(batch_claims[i])
              ELSE /\ results.value[i] = tasks[i].ret.value
                   /\ Normalize(results.value[i].claim) = Normalize(batch_claims[i])
\* The second verification finished first, the first one raised
C25_Witness ==
    /\ results # NoneDict
    /\ Len(batch_claims) = 2
    /\ completed = <<2, 1>>
    /\ tasks[1].ret.raised
    /\ ~tasks[2].ret.raised
    /\ results.value[2].status = "verified"

\* C29: with caching enabled, two verifications in flight at the same time for
\* claims with the same normalized text never both call the fact-check API
\* (and so never both write the cache entry of their common key)
C29_AtMostOneWriterPerKey ==
    settings.cache_enabled =>
        \A i, j \in 1..Len(tasks) :
            (/\ i # j
             /\ hash_claim(tasks[i].claim) = hash_claim(tasks[j].claim)
             /\ tasks[i].pc = "api")
            => tasks[j].pc # "api"

\* C26: whether a run completes or is cancelled, between steps or while a
\* per-claim call is in flight, neither the engine's state nor the dict the
\* interrupted step worked on holds a partial per-claim list: fact_checks and
\* search_insights are each empty or have one entry per claim
PerClaimListsWhole(st) ==
    \A f \in {"fact_checks", "search_insights"} :
        \/ Get(st, f, <<>>) = <<>>
        \/ Len(st[f]) = Len(Get(st, "claims", <<>>))
C26_CancellationLeavesNoPartialList ==
    /\ PerClaimListsWhole(state)
    /\ nodeState # EmptyDict => PerClaimListsWhole(nodeState)
\* Cancelled while the second of two fact checks was in flight
C26_Witness ==
    /\ pc = "cancelled"
    /\ executed # <<>>
    /\ executed[Len(executed)] = "factcheck_node"
    /\ Len(state.claims) = 2
    /\ Len(calls.factcheck) = 1
    /\ Len(state.search_insights) = 2
    /\ state.fact_checks = <<>>

\* C30: no call of cache_get, cache_set or cache_delete raises; when the
\* client is absent or the Redis operation raises, cache_get returns None and
\* cache_set and cache_delete return normally
CacheUnavailable == cache_op.client = NoneVal \/ cache_op.fault
C30_CacheFailureIsAMiss ==
    cache_op # NoneDict =>
        /\ ~cache_op.ret.raised
        /\ CacheUnavailable => cache_op.ret.value = NoneVal
\* A get of a stored key while the server fails, answered as a miss
C30_Witness ==
    /\ cache_op # NoneDict
    /\ cache_op.op = "cache_get"
    /\ cache_op.client # NoneVal
    /\ cache_op.fault
    /\ cache_op.key \in DOMAIN redis_store
    /\ cache_op.ret.value = NoneVal

\* C27: two interleaved runs share no state: no run starts from a checkpoint
\* written by a run that is still in progress, and while a run is in progress
\* the current checkpoint of its thread is one it wrote itself
InProgress(r) == runs[r].pc \notin {"idle", "returned"}
C27_ConcurrentRunsShareNoState ==
    \A r \in RunIds :
        /\ runs[r].loaded # NoneDict => ~runs[r].loaded.inflight
        /\ InProgress(r) => latest_checkpoint(ThreadId).run = r

\* C28: every run starts on the zero values of its input, and once a run has
\* completed the engine stores nothing of its state
C28_EngineRetainsNoState ==
    \A r \in RunIds :
        /\ runs[r].pc # "idle" =>
              runs[r].started_with = initial_state(runs[r].input.url, runs[r].input.selection)
        /\ runs[r].pc = "returned" =>
              \A t \in DOMAIN memory : \A i \in 1..Len(memory[t]) : memory[t][i].run # r

\* C31 (as stated): POST /verify answers a non-empty selection with status
\* success, mode granular and exactly one claim result, a url without
\* selection with 501 and a request with neither with 400
GranularSuccess ==
    /\ response.status_code = 200
    /\ Get(response, "status", NoneVal) = "success"
    /\ Get(response, "mode", NoneVal) = "granular"
    /\ Len(response.data.claims) = 1
C31_SelectionAlwaysSucceeds ==
    pc = "responded" =>
        IF Truthy(request.selection) THEN GranularSuccess
        ELSE IF Truthy(request.url) THEN response.status_code = 501
        ELSE response.status_code = 400
\* C31 (amended): a non-empty selection is answered with success, granular and
\* exactly one claim result, the one verify returned, when the verification
\* returns, and with 500 when it raises; a url without selection gets 501 and
\* a request with neither gets 400, neither of them turned into a 500
C31_SelectionSucceedsUnlessVerifyRaises ==
    pc = "responded" =>
        IF Truthy(request.selection)
        THEN IF tasks[1].ret.raised THEN response.status_code = 500
             ELSE /\ GranularSuccess
                  /\ response.data.claims[1] = tasks[1].ret.value
        ELSE IF Truthy(request.url) THEN response.status_code = 501
        ELSE response.status_code = 400
\* A request with url and selection, verified through the API
C31_Witness ==
    /\ pc = "responded"
    /\ request.selection = "Claim A "
    /\ request.url = InputUrl
    /\ ~tasks[1].hit
    /\ response.status_code = 200
    /\ response.data.claims[1].status = "verified"

\* C32: a POST /analyze request whose url is not a valid URL is answered with
\* 422 and no step of the pipeline is ever invoked for it
C32_InvalidUrlRejectedBeforePipeline ==
    (request # NoneDict /\ request.url = "not_a_valid_url") =>
        /\ pc \in {"analyze_content", "responded"}
        /\ pc = "responded" => response.status_code = 422
        /\ executed = <<>>
        /\ state = EmptyDict
        /\ report = NoneDict
C32_Witness ==
    /\ pc = "responded"
    /\ request.url = "not_a_valid_url"
    /\ response.status_code = 422
    /\ executed = <<>>

\* C33: whenever the pipeline completed for a request with a valid URL, the
\* response is 200 with status "Completed" and carries the verdict, identity
\* and details blocks filled from the pipeline's final state
C33_CompletedResponseShape ==
    (pc = "responded" /\ request.url = InputUrl /\ report # NoneDict) =>
        /\ response.status_code = 200
        /\ Get(response, "status", NoneVal) = "Completed"
        /\ "identity" \in DOMAIN response
        /\ "details" \in DOMAIN response
        /\ "status" \in DOMAIN response.verdict

\* C34: in a run with a non-empty selection and no URL the credibility step
\* records no error, and the extraction agent is called on the selection
SelectionOnly == ~Truthy(state.url) /\ Truthy(state.selection)
C34_SelectionOnlyRunIsValid ==
    (SelectionOnly /\ Ran("credibility_node")) =>
        /\ ~Truthy(state.error)
        /\ Ran("extraction_node") => calls.extraction # NoneDict

\* C35: once state.error holds a non-empty message no step changes it, so the
\* final state carries the message of the first failure
C35_ErrorIsWriteOnce ==
    [][Truthy(state.error) => state'.error = state.error]_vars
\* The extraction step failed and the three later steps have run
C35_Witness ==
    /\ state.error = "Claim extraction failed: agent error"
    /\ Ran("search_enrichment_node")
    /\ Ran("factcheck_node")
    /\ Ran("compile_report_node")

\* C36: with caching enabled, a verify that starts after a verify of a claim
\* with the same lower-cased, trimmed text has returned, the cache not having
\* been cleared in between, is answered from the cache with the identical
\* result
SameKey(i, j) == Normalize(tasks[i].claim) = Normalize(tasks[j].claim)
C36_LaterVerifyReturnsCachedResult ==
    settings.cache_enabled =>
        \A j \in 1..Len(tasks) : \A i \in tasks[j].started_after :
            (SameKey(i, j) /\ ~tasks[i].ret.raised) =>
                /\ tasks[j].hit
                /\ tasks[j].ret = tasks[i].ret

----------------------------------------------------------------------------
(* Claim extractor service (agent_2.py): POST /agent2/v1/extract *)

\* Number of /extract requests a behaviour serves
MaxExtracts == 3

PlainSelection == "Rain fell  today"
CompoundSelection == "Rain fell today and snow fell later"

\* The request bodies: a selection with or without request_id and
\* force_refresh, a page without selection, and a body with neither
ExtractRequests ==
    [request_id : {NoneVal, "req-1"}, html : {NoneVal},
     selection : {PlainSelection, CompoundSelection}, force_refresh : BOOLEAN]
    \cup { [request_id |-> NoneVal, html |-> "<p>Rain fell today</p>",
            selection |-> NoneVal, force_refresh |-> FALSE],
           [request_id |-> NoneVal, html |-> NoneVal,
            selection |-> "", force_refresh |-> FALSE] }

\* get_cache_key: the digest of the text as given, under the default prefix
get_cache_key(text) == <<"agent2", "selection", <<"sha256", text>>>>

\* sanitize_text: runs of whitespace collapse to one blank
sanitize_text(text) == IF text = PlainSelection THEN "Rain fell today" ELSE text

\* detect_mode: " and ", more than one "." or a ";" ask for atomizing
detect_mode(selection) ==
    IF selection = CompoundSelection THEN "atomize" ELSE "passthrough"

\* A Claim; i is the request whose handler drew the uuid of the claim id
Claim(style, i, n, text, source) ==
    [claim_id |-> [style |-> style, req |-> i, n |-> n], text |-> text, source |-> source]

create_passthrough_claim(selection, i) ==
    Claim("c", i, 0, sanitize_text(selection), "selection")

\* atomize_claims_rulebased: the text split at the first separator it holds
atomize_claims_rulebased(selection, i) ==
    IF selection = CompoundSelection
    THEN << Claim("c_rb", i, 0, "Rain fell today", "llm"),
            Claim("c_rb", i, 1, "snow fell later", "llm") >>
    ELSE << create_passthrough_claim(selection, i) >>

\* atomize_claims_llm after its request to the model: the claims of a valid
\* answer, or the rule-based claims on any failure
AtomizeOutcomes(selection, i) ==
    { << Claim("c", i, 0, "Rain fell today.", "llm"),
         Claim("c", i, 1, "Snow fell later.", "llm") >>,
      atomize_claims_rulebased(selection, i) }

\* request_id = req.request_id or str(uuid.uuid4())
request_id_of(req, i) ==
    IF Truthy(req.request_id) THEN [text |-> req.request_id, uuid |-> 0]
    ELSE [text |-> "", uuid |-> i]

\* ExtractResponse; metrics.processing_ms is wall-clock time and left out
ExtractResponse(request_id, status, mode_used, claims, llm_requests, warnings) ==
    [request_id |-> request_id, status |-> status, mode_used |-> mode_used,
     claims |-> claims, metrics |-> [llm_requests |-> llm_requests],
     warnings |-> warnings]

\* The answer built from a cache entry
cached_response(cached_result) ==
    ExtractResponse(cached_result.request_id, cached_result.status,
                    cached_result.mode_used, cached_result.claims, 0,
                    Append(cached_result.warnings, "Returned from cache"))

\* The variant of extract_store in which a forced request stores as well
extract_store_always(req, resp) ==
    IF Truthy(req.selection)
    THEN [k \in DOMAIN agent2_cache \cup {get_cache_key(req.selection)} |->
            IF k = get_cache_key(req.selection) THEN resp ELSE agent2_cache[k]]
    ELSE agent2_cache

\* The cache after the handler built its response: stored under the key of the
\* selection unless the request has no selection or forces a refresh
extract_store(req, resp) ==
    IF Truthy(req.selection) /\ ~req.force_refresh
    THEN [k \in DOMAIN agent2_cache \cup {get_cache_key(req.selection)} |->
            IF k = get_cache_key(req.selection) THEN resp ELSE agent2_cache[k]]
    ELSE agent2_cache

\* The tail of the handler: build the response, store it, return it
extract_finish(i, req, mode_used, claims, llm_requests, warnings) ==
    LET resp == ExtractResponse(request_id_of(req, i), "success", mode_used,
                                    claims, llm_requests, warnings)
    IN  /\ agent2_cache' = extract_store(req, resp)
        /\ extracts' = IF i > Len(extracts)
                       THEN Append(extracts, [pc |-> "done", req |-> req, response |-> resp])
                       ELSE [extracts EXCEPT ![i] = [pc |-> "done", req |-> req,
                                                     response |-> resp]]

\* A request arrives and its handler runs up to its first suspension: the
\* request to the model in atomize mode when a client is configured
extract_claims ==
    /\ Len(extracts) < MaxExtracts
    /\ \E req \in ExtractRequests :
         LET i == Len(extracts) + 1 IN
         IF ~(Truthy(req.selection) \/ Truthy(req.html))
         THEN /\ extracts' = Append(extracts, [pc |-> "done", req |-> req,
                                               response |-> [status_code |-> 400]])
              /\ UNCHANGED agent2_cache
         ELSE IF Truthy(req.selection)
         THEN IF ~req.force_refresh /\ get_cache_key(req.selection) \in DOMAIN agent2_cache
              THEN /\ extracts' = Append(extracts,
                        [pc |-> "done", req |-> req,
                         response |-> cached_response(agent2_cache[get_cache_key(req.selection)])])
                   /\ UNCHANGED agent2_cache
              ELSE IF detect_mode(req.selection) = "passthrough"
              THEN extract_finish(i, req, "passthrough",
                                  << create_passthrough_claim(req.selection, i) >>, 0, <<>>)
              ELSE \E client \in {NoneVal, "AsyncOpenAI"} :
                     IF client = NoneVal
                     THEN extract_finish(i, req, "atomize",
                                         atomize_claims_rulebased(req.selection, i), 1, <<>>)
                     ELSE /\ extracts' = Append(extracts, [pc |-> "llm", req |-> req,
                                                           response |-> NoneDict])
                          /\ UNCHANGED agent2_cache
         ELSE extract_finish(i, req, "full",
                             << create_passthrough_claim(req.html, i) >>, 0,
                             << "newspaper3k extraction failed - using raw HTML snippet" >>)
    /\ UNCHANGED <<pipelineVars, checkerVars, engineVars, cacheVars, scanVars>>

\* The model answered request i, or the call failed: the handler resumes
extract_claims_llm_return(i) ==
    /\ i \in DOMAIN extracts
    /\ extracts[i].pc = "llm"
    /\ \E claims \in AtomizeOutcomes(extracts[i].req.selection, i) :
         extract_finish(i, extracts[i].req, "atomize", claims, 1, <<>>)
    /\ UNCHANGED <<pipelineVars, checkerVars, engineVars, cacheVars, scanVars>>

InitExtractor ==
    /\ PipelineIdle
    /\ CheckerIdle
    /\ EngineIdle
    /\ CacheIdle
    /\ ScanIdle
    /\ agent2_cache = EmptyDict
    /\ extracts = <<>>

NextExtractor ==
    \/ extract_claims
    \/ \E i \in 1..MaxExtracts : extract_claims_llm_return(i)

SpecExtractor == InitExtractor /\ [][NextExtractor]_vars

\* Request i took a step: it arrived, or its handler resumed
ExtractMoved(i) ==
    /\ i \in DOMAIN extracts'
    /\ (i \in DOMAIN extracts => extracts[i].pc # extracts'[i].pc)

FromCacheWarning(warnings) ==
    \E n \in DOMAIN warnings : warnings[n] = "Returned from cache"

\* C37: a step of a request with force_refresh = true leaves the extractor
\* cache unchanged and its answer is its own, not a cached one; a request
\* with force_refresh = false that arrives for a selection already in the
\* cache is answered with the claims, status, mode and request_id of the
\* entry, llm_requests = 0 and the warning "Returned from cache" added to the
\* entry's warnings, and leaves the entry as it was
C37_ForcedBypassesCacheHitAnswersFromEntry ==
    [][ \A i \in 1..MaxExtracts : ExtractMoved(i) =>
          LET req == extracts'[i].req
              key == <<"agent2", "selection", <<"sha256", req.selection>>>>
          IN  /\ req.force_refresh =>
                   /\ agent2_cache' = agent2_cache
                   /\ extracts'[i].pc = "done" =>
                        /\ extracts'[i].response.request_id = request_id_of(req, i)
                        /\ ~FromCacheWarning(extracts'[i].response.warnings)
              /\ (~req.force_refresh /\ Truthy(req.selection) /\ key \in DOMAIN agent2_cache
                    /\ i \notin DOMAIN extracts) =>
                   /\ extracts'[i].pc = "done"
                   /\ extracts'[i].response.request_id = agent2_cache[key].request_id
                   /\ extracts'[i].response.status = agent2_cache[key].status
                   /\ extracts'[i].response.mode_used = agent2_cache[key].mode_used
                   /\ extracts'[i].response.claims = agent2_cache[key].claims
                   /\ extracts'[i].response.metrics.llm_requests = 0
                   /\ extracts'[i].response.warnings =
                        Append(agent2_cache[key].warnings, "Returned from cache")
                   /\ agent2_cache' = agent2_cache
      ]_vars

\* C37 witness: a selection is stored by a first request, a forced request
\* for it is answered afresh, and a third request gets the first one's answer
C37_Witness ==
    \E i, j, k \in DOMAIN extracts :
      /\ i < j /\ j < k
      /\ extracts[i].req.selection = CompoundSelection
      /\ extracts[j].req.selection = CompoundSelection
      /\ extracts[k].req.selection = CompoundSelection
      /\ ~extracts[i].req.force_refresh /\ extracts[i].pc = "done"
      /\ extracts[j].req.force_refresh /\ extracts[j].pc = "done"
      /\ ~extracts[k].req.force_refresh /\ extracts[k].pc = "done"
      /\ extracts[j].response.request_id # extracts[i].response.request_id
      /\ extracts[j].response.claims # extracts[i].response.claims
      /\ extracts[k].response.request_id = extracts[i].response.request_id
      /\ extracts[k].response.claims = extracts[i].response.claims
      /\ extracts[k].response.metrics.llm_requests = 0
      /\ FromCacheWarning(extracts[k].response.warnings)

----------------------------------------------------------------------------
(* SourceCredibilityTool.check_source_credibility (identify/tools.py) *)

\* for _ in range(10): the number of fetches the polling loop can make
PollAttempts == 10

ScanUrls == {InputUrl, "localhost"}
ResultUrl == "https://urlscan.io/api/v1/result/uuid/"

\* A finished scan as urlscan.io returns it
ScanData == [task |-> [url |-> InputUrl], verdicts |-> [malicious |-> FALSE]]

\* extract_domain: domain.suffix, or "unknown" when the URL has no suffix
extract_domain(url) == IF url = InputUrl THEN "example.com" ELSE "unknown"

\* The result dict check_source_credibility starts with
scan_result(url) ==
    [url |-> url, domain |-> extract_domain(url), urlscan_result |-> NoneVal,
     verdict |-> NoneVal, is_malicious |-> NoneVal, suspicious |-> NoneVal]

\* extract_credibility_signals, reduced to the fields of ScanData
extract_credibility_signals(data) ==
    [url |-> data.task.url, malicious_detected |-> data.verdicts.malicious]

\* Truth value of a JSON answer: None and {} are false
TruthyData(data) == data # NoneDict /\ DOMAIN data # {}

\* What one request to urlscan.io can do: a 200 answer, an answer with
\* another status or an aiohttp.ClientError (both become None), or an
\* exception that is not a ClientError (a timeout, a body that is not JSON)
SubmitOutcomes == {"200", "none", "raise"}
FetchOutcomes == {"200", "200empty", "none", "raise"}

\* The statements after the polling loop
scan_return(data) ==
    IF TruthyData(data) THEN extract_credibility_signals(data) ELSE EmptyDict

\* check_source_credibility is called: it builds result and calls
\* _submit_to_urlscan, which returns None at once without an API key
check_source_credibility ==
    /\ scan # NoneDict
    /\ scan.pc = "start"
    /\ scan' = IF ~Truthy(scan.api_key)
               THEN [scan EXCEPT !.pc = "returned", !.ret = scan_result(scan.url)]
               ELSE [scan EXCEPT !.pc = "submit"]
    /\ UNCHANGED <<pipelineVars, checkerVars, engineVars, cacheVars, extractorVars>>

\* The submission request is over
submit_to_urlscan_return ==
    /\ scan # NoneDict
    /\ scan.pc = "submit"
    /\ \E outcome \in SubmitOutcomes :
         scan' = IF outcome = "200"
                 THEN [scan EXCEPT !.pc = "sleep", !.result_url = ResultUrl]
                 ELSE IF outcome = "none"
                 THEN [scan EXCEPT !.pc = "returned", !.ret = scan_result(scan.url)]
                 ELSE [scan EXCEPT !.pc = "raised"]
    /\ UNCHANGED <<pipelineVars, checkerVars, engineVars, cacheVars, extractorVars>>

\* await asyncio.sleep(5) is over and the next fetch is sent
poll_sleep_return ==
    /\ scan # NoneDict
    /\ scan.pc = "sleep"
    /\ scan' = [scan EXCEPT !.pc = "fetch", !.polls = @ + 1]
    /\ UNCHANGED <<pipelineVars, checkerVars, engineVars, cacheVars, extractorVars>>

\* The polling loop ends on a true answer or after the last attempt
poll_exit(data, polls) == TruthyData(data) \/ polls >= PollAttempts

\* A fetch request is over: the loop goes on or the function returns
fetch_urlscan_result_return ==
    /\ scan # NoneDict
    /\ scan.pc = "fetch"
    /\ \E outcome \in FetchOutcomes :
         IF outcome = "raise"
         THEN scan' = [scan EXCEPT !.pc = "raised"]
         ELSE LET data == IF outcome = "200" THEN ScanData
                          ELSE IF outcome = "200empty" THEN EmptyDict
                          ELSE NoneDict
              IN  scan' = IF poll_exit(data, scan.polls)
                          THEN [scan EXCEPT !.pc = "returned", !.urlscan_data = data,
                                            !.ret = scan_return(data)]
                          ELSE [scan EXCEPT !.pc = "sleep", !.urlscan_data = data]
    /\ UNCHANGED <<pipelineVars, checkerVars, engineVars, cacheVars, extractorVars>>

InitScan ==
    /\ PipelineIdle
    /\ CheckerIdle
    /\ EngineIdle
    /\ CacheIdle
    /\ ExtractorIdle
    /\ scan \in [pc : {"start"}, url : ScanUrls, api_key : {NoneVal, "key"},
                 result_url : {NoneVal}, polls : {0}, urlscan_data : {NoneDict},
                 ret : {NoneDict}]

NextScan ==
    \/ check_source_credibility
    \/ submit_to_urlscan_return
    \/ poll_sleep_return
    \/ fetch_urlscan_result_return

SpecScan == InitScan /\ [][NextScan]_vars

\* Every request and every sleep of the call comes to an end
FairSpecScan == SpecScan /\ WF_vars(NextScan)

ScanOver == scan # NoneDict /\ scan.pc \in {"returned", "raised"}

\* A return value that carries no scan result: the initial result dict with
\* urlscan_result None, or the empty insights dict
WithoutScanResult(ret) ==
    \/ DOMAIN ret = {}
    \/ "urlscan_result" \in DOMAIN ret /\ ret.urlscan_result = NoneVal

\* C38: when the submission to urlscan.io has failed, or all 10 fetches of
\* the result have failed, check_source_credibility has returned, and what
\* it returned carries no scan result
C38_FailureReturnsWithoutScanResult ==
    (/\ ScanOver
     /\ \/ scan.result_url = NoneVal
        \/ scan.polls = PollAttempts /\ ~TruthyData(scan.urlscan_data))
    => /\ scan.pc = "returned"
       /\ WithoutScanResult(scan.ret)

====
